---- MODULE Spec2Model ----
(***************************************************************************)
(* Model of semblance: link resolution (resolver.py), override evaluation  *)
(* and response building (factory.py), link metadata (links.py), the       *)
(* plugin registry (plugins.py) and spec validation (validation.py).       *)
(***************************************************************************)
EXTENDS Integers, Sequences, FiniteSets, TLC

VARIABLES
    registry,     \* plugins._REGISTRY: the registered custom link classes
    grand,        \* state of the module-level generator `random`
    frand,        \* state of the generator the factories share when not seeded
    call,         \* the engine call of the behaviour: operation, arguments, exception
    overrides,    \* the override map the last resolve_overrides returned
    rngs,         \* states of the random.Random(seed) objects the map's thunks close over
    resolved,     \* outcome of the last _evaluate_overrides on `overrides`
    built,        \* the instances the last build_one / build_list returned
    others,       \* how often other code drew from the shared generators since the call
    specs,        \* SemblanceAPI._specs: the registered endpoint specs
    errors,       \* the list validate_specs returned last
    timestamps,   \* RateLimiter._timestamps: (path, method) -> list of admitted call times
    lock,         \* RateLimiter._lock: the thread holding it, or NoThread
    threads,      \* per thread: where it is in check_and_record, its locals, its last result
    clock,        \* time.monotonic(), in ticks
    admitted,     \* history: per key, the times of the calls that returned True under a limit
    calls,        \* history: number of check_and_record calls made
    store,        \* StatefulStore._store: path -> list of stored instances
    response      \* what the last store call or stateful request returned

\* the state of the services around the engine: rate limiter and stateful store
services == <<timestamps, lock, threads, clock, admitted, calls, store, response>>
vars ==
    <<registry, grand, frand, call, overrides, rngs, resolved, built, others, specs, errors,
      services>>

(***************************************************************************)
(* Bounds of the model.                                                    *)
(***************************************************************************)
MaxSeed == 1
MaxCount == 2
MaxOther == 2
TicksPerDay == 4
TicksPerSecond == 2
MaxClock == 3
MaxCalls == 4
MaxItems == 2
MaxRequests == 2

(***************************************************************************)
(* Python values.  Every value is a record with a `kind`.                  *)
(***************************************************************************)
NoneV == [kind |-> "none", n |-> 0, s |-> ""]
IntV(i) == [kind |-> "int", n |-> i, s |-> ""]
BoolV(b) == [kind |-> "bool", n |-> IF b THEN 1 ELSE 0, s |-> ""]
StrV(str) == [kind |-> "str", n |-> 0, s |-> str]
\* datetime.date: n is the day number
DateV(d) == [kind |-> "date", n |-> d, s |-> ""]
\* datetime.datetime: n is the instant in ticks, s the UTC offset ("" when naive)
DtV(t, tz) == [kind |-> "dt", n |-> t, s |-> tz]
ListV(items) == [kind |-> "list", items |-> items]
\* the value of a one-element set: names the result of a call
Only(S) == CHOOSE y \in S : TRUE

\* the value fn(*args) of a ComputedFrom combine function
Apply(fn, args) == [kind |-> "app", fn |-> fn, args |-> args]

IsNone(v) == "kind" \in DOMAIN v /\ v.kind = "none"

\* Python ==: bool is an int (True == 1, False == 0); otherwise same type, same content
PyEq(x, y) ==
    IF x.kind \in {"int", "bool"} /\ y.kind \in {"int", "bool"}
    THEN x.n = y.n
    ELSE x = y

\* bool(v) of the values of the model
Truthy(v) ==
    IF v.kind \in {"int", "bool"} THEN v.n # 0
    ELSE IF v.kind = "str" THEN v.s # ""
    ELSE IF v.kind = "list" THEN Len(v.items) > 0
    ELSE ~IsNone(v)

\* dict.get(key): None when the key is absent
DictGet(d, key) == IF key \in DOMAIN d THEN d[key] ELSE NoneV

(***************************************************************************)
(* random.Random: a small linear congruential generator stands for the     *)
(* Mersenne Twister.  A generator is a reference: 0 is the module-level    *)
(* `random`, i >= 1 is the i-th Random(seed) object of the heap.           *)
(***************************************************************************)
NoSeed == -1
RngMod == 8
RngSeed(seed) == (3 * seed + 1) % RngMod
RngStep(x) == (5 * x + 3) % RngMod

RngState(r, st) == IF r = 0 THEN st.grand ELSE st.rngs[r]

\* one call of r.random(): the generator advances and yields state / RngMod
RngAdvance(r, st) ==
    IF r = 0
    THEN [st EXCEPT !.grand = RngStep(@)]
    ELSE [st EXCEPT !.rngs[r] = RngStep(@)]

\* round(num / den) to the nearest integer, ties to even (timedelta's rounding)
RoundHalfEven(num, den) ==
    LET q == num \div den
        r == num % den
    IN  IF 2 * r < den THEN q
        ELSE IF 2 * r > den THEN q + 1
        ELSE IF q % 2 = 0 THEN q ELSE q + 1

(***************************************************************************)
(* links.py: the link kinds.                                               *)
(***************************************************************************)
FromInput(field) == [kind |-> "FromInput", field |-> field]
DateRangeFrom(start, end) == [kind |-> "DateRangeFrom", start |-> start, end |-> end]
WhenInput(condition_field, condition_value, then_link) ==
    [kind |-> "WhenInput", condition_field |-> condition_field,
     condition_value |-> condition_value, then_link |-> then_link]
ComputedFrom(fields, fn) == [kind |-> "ComputedFrom", fields |-> fields, fn |-> fn]
FromHeader(name) == [kind |-> "FromHeader", name |-> name]
FromCookie(name) == [kind |-> "FromCookie", name |-> name]
\* instances of user-defined link classes (tests/test_plugins.py)
FromEnv(env_var) == [kind |-> "FromEnv", env_var |-> env_var]
RandomChoice(field) == [kind |-> "RandomChoice", field |-> field]
\* an instance of a link class whose resolve returns the object it was made with
Returns(value) == [kind |-> "Returns", value |-> value]

BuiltinLinkKinds ==
    {"FromInput", "DateRangeFrom", "WhenInput", "ComputedFrom", "FromHeader", "FromCookie"}
PluginKinds == {"RandomChoice"}

\* plugins.is_registered: type(meta) in _REGISTRY
is_registered(meta, reg) == meta.kind \in reg

(***************************************************************************)
(* Pydantic models: a name and an ordered list of fields; a field has an   *)
(* annotation (origin and type arguments) and its Annotated metadata.      *)
(***************************************************************************)
Builtin(t) == [builtin |-> t]
Model(name, fields) == [name |-> name, model_fields |-> fields]
IsModel(t) == "model_fields" \in DOMAIN t
Plain(t) == [origin |-> "", args |-> <<t>>]
\* Optional[t] is Union[t, None]; list[t]
OptionalOf(t) == [origin |-> "Union", args |-> <<t, Builtin("NoneType")>>]
ListOf(t) == [origin |-> "list", args |-> <<t>>]
Fld(name, annotation, metadata) ==
    [name |-> name, annotation |-> annotation, metadata |-> metadata]

FieldNames(model) == {model.model_fields[i].name : i \in 1..Len(model.model_fields)}
FieldOf(model, name) ==
    model.model_fields[CHOOSE i \in 1..Len(model.model_fields) : model.model_fields[i].name = name]

\* resolver._get_nested_model
get_nested_model(annotation) ==
    IF annotation.origin # ""
    THEN LET hits == {i \in 1..Len(annotation.args) : IsModel(annotation.args[i])}
         IN  IF hits = {} THEN NoneV
             ELSE annotation.args[CHOOSE i \in hits : \A j \in hits : i <= j]
    ELSE IF IsModel(annotation.args[1]) THEN annotation.args[1] ELSE NoneV

\* links.get_field_metadata: the first metadata that is a built-in link or an
\* instance of a registered class
get_field_metadata(model, field_name, reg) ==
    IF field_name \notin FieldNames(model) THEN NoneV
    ELSE LET md == FieldOf(model, field_name).metadata
             hits == {i \in 1..Len(md) :
                         md[i].kind \in BuiltinLinkKinds \/ is_registered(md[i], reg)}
         IN  IF hits = {} THEN NoneV
             ELSE md[CHOOSE i \in hits : \A j \in hits : i <= j]

(***************************************************************************)
(* resolver.py                                                             *)
(***************************************************************************)
\* the strings of the model that datetime.fromisoformat accepts, and their values
IsoFormats ==
    [x \in {"2024-01-03", "2024-01-02T00:00:00+00:00"} |->
        IF x = "2024-01-03" THEN DtV(2 * TicksPerDay, "") ELSE DtV(TicksPerDay, "+00:00")]

\* str.replace("Z", "+00:00") on the strings of the model
ReplaceZ(str) == IF str = "2024-01-02T00:00:00Z" THEN "2024-01-02T00:00:00+00:00" ELSE str

\* datetime.fromisoformat: the value, or ValueError
fromisoformat(str) ==
    IF str \in DOMAIN IsoFormats
    THEN [exc |-> "", value |-> IsoFormats[str]]
    ELSE [exc |-> "ValueError", value |-> NoneV]

\* _to_datetime without its try/except: ValueError escapes
to_datetime_unguarded(value) ==
    IF IsNone(value) THEN [exc |-> "", value |-> NoneV]
    ELSE IF value.kind = "dt" THEN [exc |-> "", value |-> value]
    ELSE IF value.kind = "date"
         THEN [exc |-> "", value |-> DtV(value.n * TicksPerDay, "")]
    ELSE IF value.kind = "str" THEN fromisoformat(ReplaceZ(value.s))
    ELSE [exc |-> "", value |-> NoneV]

\* resolver._to_datetime: [exc, value]; value is NoneV when not convertible
to_datetime(value) ==
    IF IsNone(value) THEN [exc |-> "", value |-> NoneV]
    ELSE IF value.kind = "dt" THEN [exc |-> "", value |-> value]
    ELSE IF value.kind = "date"
         THEN [exc |-> "", value |-> DtV(value.n * TicksPerDay, "")]
    ELSE IF value.kind = "str"
         THEN LET parsed == fromisoformat(ReplaceZ(value.s))
              IN  IF parsed.exc = "ValueError"
                  THEN [exc |-> "", value |-> NoneV]
                  ELSE parsed
    ELSE [exc |-> "", value |-> NoneV]

\* resolver._make_random_datetime_closure: the closure over (start, end, rng)
make_random_datetime_closure(start_dt, end_dt, rng) ==
    [kind |-> "callable", s |-> start_dt, e |-> end_dt, r |-> rng]

\* the closure fn without the `delta <= 0` early return
call_closure_unguarded(f, st) ==
    IF f.s.s # f.e.s THEN [exc |-> "TypeError", value |-> NoneV, st |-> st]
    ELSE LET delta == f.e.n - f.s.n
             st2 == RngAdvance(f.r, st)
             num == delta * RngState(f.r, st2)
         IN  [exc |-> "", value |-> DtV(f.s.n + RoundHalfEven(num, RngMod), f.s.s), st |-> st2]

\* one invocation of the closure fn: [exc, value, st]
\* (subtracting an aware and a naive datetime raises TypeError)
call_closure(f, st) ==
    IF f.s.s # f.e.s THEN [exc |-> "TypeError", value |-> NoneV, st |-> st]
    ELSE LET delta == f.e.n - f.s.n
         IN  IF delta <= 0 THEN [exc |-> "", value |-> f.s, st |-> st]
             ELSE LET st2 == RngAdvance(f.r, st)
                      \* sec = r.uniform(0, delta) = 0 + (delta - 0) * r.random()
                      num == delta * RngState(f.r, st2)
                  IN  [exc |-> "",
                       value |-> DtV(f.s.n + RoundHalfEven(num, RngMod), f.s.s),
                       st |-> st2]

\* os.environ of the process
Environ == [x \in {"TEST_VAR"} |-> StrV("custom_value")]

\* meta.resolve(input_data, rng) of the custom link classes: [value, st]
PluginResolve(meta, input_data, rng, st) ==
    IF meta.kind = "FromEnv"
    THEN [value |-> DictGet(Environ, meta.env_var), st |-> st]
    ELSE IF meta.kind = "Returns" THEN [value |-> meta.value, st |-> st]
    ELSE LET opts == DictGet(input_data, meta.field)
         IN  IF opts.kind = "list" /\ Len(opts.items) > 0
             THEN LET st2 == RngAdvance(rng, st)
                      i == (RngState(rng, st2) * Len(opts.items)) \div RngMod
                  IN  [value |-> opts.items[i + 1], st |-> st2]
             ELSE [value |-> NoneV, st |-> st]

NoOverride(st) == [has |-> FALSE, exc |-> "", value |-> NoneV, st |-> st]
Override(value, st) == [has |-> TRUE, exc |-> "", value |-> value, st |-> st]
Raised(exc, st) == [has |-> FALSE, exc |-> exc, value |-> NoneV, st |-> st]

\* the FromHeader / FromCookie branches with `if val:`
RequestOverride_truthy(meta, request, st) ==
    IF IsNone(request) THEN NoOverride(st)
    ELSE LET val == IF meta.kind = "FromHeader"
                    THEN DictGet(request.headers, meta.name)
                    ELSE DictGet(request.cookies, meta.name)
         IN  IF Truthy(val) THEN Override(val, st) ELSE NoOverride(st)

\* resolve_overrides, the FromHeader / FromCookie branches
RequestOverride(meta, request, st) ==
    IF IsNone(request) THEN NoOverride(st)
    ELSE LET val == IF meta.kind = "FromHeader"
                    THEN DictGet(request.headers, meta.name)
                    ELSE DictGet(request.cookies, meta.name)
         IN  IF ~IsNone(val) THEN Override(val, st) ELSE NoOverride(st)

\* the FromInput branch with `if val:`
FromInputOverride_truthy(meta, input_data, st) ==
    LET val == DictGet(input_data, meta.field)
    IN  IF Truthy(val) THEN Override(val, st) ELSE NoOverride(st)

\* resolve_overrides, the FromInput branch
FromInputOverride(meta, input_data, st) ==
    LET val == DictGet(input_data, meta.field)
    IN  IF ~IsNone(val) THEN Override(val, st) ELSE NoOverride(st)

\* resolve_overrides, the DateRangeFrom branch
DateRangeOverride(meta, input_data, rng, st) ==
    LET start_val == DictGet(input_data, meta.start)
        end_val == DictGet(input_data, meta.end)
    IN  IF ~IsNone(start_val) /\ ~IsNone(end_val)
        THEN LET start == to_datetime(start_val)
                 end == to_datetime(end_val)
             IN  IF start.exc # "" THEN Raised(start.exc, st)
                 ELSE IF end.exc # "" THEN Raised(end.exc, st)
                 ELSE IF ~IsNone(start.value) /\ ~IsNone(end.value)
                      THEN Override(make_random_datetime_closure(start.value, end.value, rng), st)
                      ELSE NoOverride(st)
        ELSE NoOverride(st)

\* the WhenInput branch with `if val:` for the inner FromInput
WhenInputOverride_truthy(meta, input_data, rng, st) ==
    IF PyEq(DictGet(input_data, meta.condition_field), meta.condition_value)
    THEN LET inner == meta.then_link
         IN  IF inner.kind = "FromInput"
             THEN LET val == DictGet(input_data, inner.field)
                  IN  IF Truthy(val) THEN Override(val, st) ELSE NoOverride(st)
             ELSE IF inner.kind = "DateRangeFrom"
             THEN DateRangeOverride(inner, input_data, rng, st)
             ELSE NoOverride(st)
    ELSE NoOverride(st)

\* resolve_overrides, the WhenInput branch (the inner link is applied inline)
WhenInputOverride(meta, input_data, rng, st) ==
    IF PyEq(DictGet(input_data, meta.condition_field), meta.condition_value)
    THEN LET inner == meta.then_link
         IN  IF inner.kind = "FromInput"
             THEN LET val == DictGet(input_data, inner.field)
                  IN  IF ~IsNone(val) THEN Override(val, st) ELSE NoOverride(st)
             ELSE IF inner.kind = "DateRangeFrom"
             THEN LET start_val == DictGet(input_data, inner.start)
                      end_val == DictGet(input_data, inner.end)
                  IN  IF ~IsNone(start_val) /\ ~IsNone(end_val)
                      THEN LET start == to_datetime(start_val)
                               end == to_datetime(end_val)
                           IN  IF start.exc # "" THEN Raised(start.exc, st)
                               ELSE IF end.exc # "" THEN Raised(end.exc, st)
                               ELSE IF ~IsNone(start.value) /\ ~IsNone(end.value)
                                    THEN Override(make_random_datetime_closure(
                                                      start.value, end.value, rng), st)
                                    ELSE NoOverride(st)
                      ELSE NoOverride(st)
             ELSE NoOverride(st)
    ELSE NoOverride(st)

\* a Python dict with string keys
Dict(items) == [kind |-> "dict", items |-> items]
HasKeys(v, keys) == v.kind = "dict" /\ keys \subseteq DOMAIN v.items

\* resolve_overrides, the ComputedFrom branch: the computed marker
ComputedOverride(meta, st) ==
    Override(Dict([k \in {"_computed", "_fn"} |->
                      IF k = "_computed" THEN meta.fields ELSE meta.fn]), st)

\* resolve_overrides, the registered-link branch
PluginOverride(meta, input_data, rng, st) ==
    LET res == PluginResolve(meta, input_data, rng, st)
    IN  IF ~IsNone(res.value) THEN Override(res.value, res.st) ELSE NoOverride(res.st)

\* resolve_overrides, the dispatch on the field's metadata (lines 105-159)
LinkOverride(meta, input_data, request, rng, st, reg) ==
    IF IsNone(meta) THEN NoOverride(st)
    ELSE IF meta.kind \in {"FromHeader", "FromCookie"} THEN RequestOverride(meta, request, st)
    ELSE IF meta.kind = "FromInput" THEN FromInputOverride(meta, input_data, st)
    ELSE IF meta.kind = "WhenInput" THEN WhenInputOverride(meta, input_data, rng, st)
    ELSE IF meta.kind = "DateRangeFrom" THEN DateRangeOverride(meta, input_data, rng, st)
    ELSE IF meta.kind = "ComputedFrom" THEN ComputedOverride(meta, st)
    ELSE IF is_registered(meta, reg) THEN PluginOverride(meta, input_data, rng, st)
    ELSE NoOverride(st)

\* rng = random, whatever the seed
NewRng_unseeded(seed, st) == [rng |-> 0, st |-> st]

\* rng = random.Random(seed) if seed is not None else random
NewRng(seed, st) ==
    IF seed # NoSeed
    THEN [rng |-> Len(st.rngs) + 1, st |-> [st EXCEPT !.rngs = Append(@, RngSeed(seed))]]
    ELSE [rng |-> 0, st |-> st]

RECURSIVE resolve_overrides(_, _, _, _, _, _)
RECURSIVE ResolveFields(_, _, _, _, _, _, _, _, _)

\* the loop of resolve_overrides over output_model.model_fields, from field i on:
\* [exc, overrides, st]; overrides is the dict in insertion order
ResolveFields(output_model, i, input_data, seed, request, rng, acc, st, reg) ==
    IF i > Len(output_model.model_fields) THEN [exc |-> "", overrides |-> acc, st |-> st]
    ELSE LET fld == output_model.model_fields[i]
             nested_model == get_nested_model(fld.annotation)
         IN  IF ~IsNone(nested_model)
             THEN LET sub == resolve_overrides(nested_model, input_data, seed, request, st, reg)
                      entry == [key |-> fld.name,
                                value |-> Dict([k \in {"_nested", "_overrides"} |->
                                               IF k = "_nested" THEN nested_model
                                               ELSE sub.overrides])]
                  IN  IF sub.exc # "" THEN [exc |-> sub.exc, overrides |-> <<>>, st |-> sub.st]
                      ELSE ResolveFields(output_model, i + 1, input_data, seed, request, rng,
                                         Append(acc, entry), sub.st, reg)
             ELSE LET meta == get_field_metadata(output_model, fld.name, reg)
                      o == LinkOverride(meta, input_data, request, rng, st, reg)
                  IN  IF o.exc # "" THEN [exc |-> o.exc, overrides |-> <<>>, st |-> o.st]
                      ELSE ResolveFields(output_model, i + 1, input_data, seed, request, rng,
                                         IF o.has
                                         THEN Append(acc, [key |-> fld.name, value |-> o.value])
                                         ELSE acc,
                                         o.st, reg)

\* resolver.resolve_overrides: [exc, overrides, st]
resolve_overrides(output_model, input_data, seed, request, st, reg) ==
    LET new == NewRng(seed, st)
    IN  ResolveFields(output_model, 1, input_data, seed, request, new.rng, <<>>, new.st, reg)

(***************************************************************************)
(* The generic factory (polyfactory's ModelFactory), as factory.py uses it.*)
(* A factory class draws filler values from its own Random(seed) after     *)
(* seed_random(seed), and from the library's shared generator otherwise.   *)
(***************************************************************************)
GenStrings == <<"", "admin", "x", "y">>

\* a schema-consistent value for a builtin type, from one draw u
Generate(t, u) ==
    IF t = "int" THEN IntV(u % 2)
    ELSE IF t = "bool" THEN BoolV(u % 2 = 1)
    ELSE IF t = "datetime" THEN DtV(u, "")
    ELSE StrV(GenStrings[(u % Len(GenStrings)) + 1])

\* ModelFactory.create_factory(model), then seed_random(seed) when seed is not None
create_factory(seed) ==
    IF seed # NoSeed THEN [seeded |-> TRUE, state |-> RngSeed(seed)]
    ELSE [seeded |-> FALSE, state |-> 0]

FactoryDraw(fr, st) ==
    IF fr.seeded
    THEN LET s2 == RngStep(fr.state) IN [u |-> s2, fr |-> [fr EXCEPT !.state = s2], st |-> st]
    ELSE LET s2 == RngStep(st.frand) IN [u |-> s2, fr |-> fr, st |-> [st EXCEPT !.frand = s2]]

Instance(model, fields) == [kind |-> "obj", model |-> model.name, fields |-> fields]

RECURSIVE FactoryFields(_, _, _, _, _, _)
\* factory_class.build(**kwargs): kwargs fix their fields, the rest is generated
FactoryFields(model, i, kwargs, acc, fr, st) ==
    IF i > Len(model.model_fields) THEN [instance |-> Instance(model, acc), fr |-> fr, st |-> st]
    ELSE LET fld == model.model_fields[i]
             one(v) == [x \in {fld.name} |-> v]
         IN  IF fld.name \in DOMAIN kwargs
             THEN FactoryFields(model, i + 1, kwargs, acc @@ one(kwargs[fld.name]), fr, st)
             ELSE LET sub == get_nested_model(fld.annotation)
                  IN  IF ~IsNone(sub)
                      THEN LET b == FactoryFields(sub, 1, <<>>, <<>>, fr, st)
                           IN  FactoryFields(model, i + 1, kwargs, acc @@ one(b.instance),
                                             b.fr, b.st)
                      ELSE LET d == FactoryDraw(fr, st)
                           IN  FactoryFields(model, i + 1, kwargs,
                                             acc @@ one(Generate(fld.annotation.args[1].builtin, d.u)),
                                             d.fr, d.st)

FactoryBuild(model, kwargs, fr, st) == FactoryFields(model, 1, kwargs, <<>>, fr, st)

(***************************************************************************)
(* factory.py                                                              *)
(***************************************************************************)
IsComputedMarker(value) == HasKeys(value, {"_computed", "_fn"})
\* no value is taken for a nested bundle
IsNestedBundle_never(value) == FALSE
IsNestedBundle(value) == HasKeys(value, {"_nested", "_overrides"})
\* callable(value) and not isinstance(value, type)
IsCallable(value) == value.kind = "callable"

RECURSIVE evaluate_overrides(_, _, _)
RECURSIVE EvalFirstPass(_, _, _, _, _, _)
RECURSIVE EvalComputed(_, _, _, _)

\* _evaluate_overrides, first loop from entry i on: [exc, result, computed, st]
EvalFirstPass(ovr, i, seed, result, computed, st) ==
    IF i > Len(ovr) THEN [exc |-> "", result |-> result, computed |-> computed, st |-> st]
    ELSE LET key == ovr[i].key
             value == ovr[i].value
             one(v) == [x \in {key} |-> v]
         IN  IF IsComputedMarker(value)
             THEN EvalFirstPass(ovr, i + 1, seed, result,
                                Append(computed, [key |-> key,
                                                  dep_fields |-> value.items["_computed"],
                                                  fn |-> value.items["_fn"]]), st)
             ELSE IF IsNestedBundle(value)
             THEN LET nested_resolved ==
                          evaluate_overrides(value.items["_overrides"], seed, st)
                  IN  IF nested_resolved.exc # ""
                      THEN [exc |-> nested_resolved.exc, result |-> result,
                            computed |-> computed, st |-> nested_resolved.st]
                      ELSE LET b == FactoryBuild(value.items["_nested"], nested_resolved.result,
                                                 create_factory(seed), nested_resolved.st)
                           IN  EvalFirstPass(ovr, i + 1, seed, one(b.instance) @@ result,
                                             computed, b.st)
             ELSE IF IsCallable(value)
             THEN LET c == call_closure(value, st)
                  IN  IF c.exc # ""
                      THEN [exc |-> c.exc, result |-> result, computed |-> computed, st |-> c.st]
                      ELSE EvalFirstPass(ovr, i + 1, seed, one(c.value) @@ result, computed, c.st)
             ELSE EvalFirstPass(ovr, i + 1, seed, one(value) @@ result, computed, st)

RECURSIVE EvalComputed_reversed(_, _, _, _)
\* the second loop passing the dependency values in reverse order
EvalComputed_reversed(computed, i, result, st) ==
    IF i > Len(computed) THEN [exc |-> "", result |-> result, st |-> st]
    ELSE LET c == computed[i]
             n == Len(c.dep_fields)
         IN  IF \E j \in 1..n : c.dep_fields[j] \notin DOMAIN result
             THEN [exc |-> "KeyError", result |-> result, st |-> st]
             ELSE LET dep_values == [j \in 1..n |-> result[c.dep_fields[n + 1 - j]]]
                  IN  EvalComputed_reversed(computed, i + 1,
                                            [x \in {c.key} |-> Apply(c.fn, dep_values)] @@ result,
                                            st)

\* _evaluate_overrides, second loop over computed.items() from entry i on
EvalComputed(computed, i, result, st) ==
    IF i > Len(computed) THEN [exc |-> "", result |-> result, st |-> st]
    ELSE LET c == computed[i]
         IN  IF \E j \in 1..Len(c.dep_fields) : c.dep_fields[j] \notin DOMAIN result
             THEN [exc |-> "KeyError", result |-> result, st |-> st]
             ELSE LET dep_values == [j \in 1..Len(c.dep_fields) |-> result[c.dep_fields[j]]]
                  IN  EvalComputed(computed, i + 1,
                                   [x \in {c.key} |-> Apply(c.fn, dep_values)] @@ result, st)

\* the map with every thunk replaced by the value it returned
Cached(ovr, result) ==
    [i \in 1..Len(ovr) |->
        IF IsCallable(ovr[i].value) /\ ovr[i].key \in DOMAIN result
        THEN [ovr[i] EXCEPT !.value = result[ovr[i].key]]
        ELSE ovr[i]]

\* an _evaluate_overrides that stores what each thunk returned in the map
evaluate_overrides_caching(ovr, seed, st) ==
    Only({IF first.exc # ""
          THEN [exc |-> first.exc, result |-> first.result, st |-> first.st,
                overrides |-> Cached(ovr, first.result)]
          ELSE Only({[exc |-> second.exc, result |-> second.result, st |-> second.st,
                      overrides |-> Cached(ovr, second.result)]
                     : second \in {EvalComputed(first.computed, 1, first.result, first.st)}})
          : first \in {EvalFirstPass(ovr, 1, seed, <<>>, <<>>, st)}})

\* factory._evaluate_overrides: [exc, result, st, overrides]; result maps field
\* names to values, overrides is the dict it was given as it is afterwards (the
\* function assigns to `result` and `computed` only)
evaluate_overrides(ovr, seed, st) ==
    Only({IF first.exc # ""
          THEN [exc |-> first.exc, result |-> first.result, st |-> first.st,
                overrides |-> ovr]
          ELSE Only({[exc |-> second.exc, result |-> second.result, st |-> second.st,
                      overrides |-> ovr]
                     : second \in {EvalComputed(first.computed, 1, first.result, first.st)}})
          : first \in {EvalFirstPass(ovr, 1, seed, <<>>, <<>>, st)}})

\* build_one after resolve_overrides returned r: [exc, overrides, instances, st]
BuildResolved(output_model, seed, r) ==
    Only({IF e.exc # ""
          THEN [exc |-> e.exc, overrides |-> e.overrides, instances |-> <<>>, st |-> e.st]
          ELSE Only({[exc |-> "", overrides |-> e.overrides, instances |-> <<b.instance>>,
                      st |-> b.st]
                     : b \in {FactoryBuild(output_model, e.result, create_factory(seed), e.st)}})
          : e \in {evaluate_overrides(r.overrides, seed, r.st)}})

\* factory.build_one: [exc, overrides, instances, st]
build_one(output_model, input_data, seed, st, reg) ==
    Only({IF r.exc # ""
          THEN [exc |-> r.exc, overrides |-> <<>>, instances |-> <<>>, st |-> r.st]
          ELSE BuildResolved(output_model, seed, r)
          : r \in {resolve_overrides(output_model, input_data, seed, NoneV, st, reg)}})

\* range(oversample) / range(count): the number of passes the loop can make
Passes(count, filter_by) == IF filter_by # "" THEN count * 5 ELSE count

RECURSIVE BuildLoop_nobreak(_, _, _, _, _, _, _, _, _, _)
\* the loops of build_list without the break: every pass is made, result[:count]
BuildLoop_nobreak(output_model, ovr, seed, left, count, filter_by, target_val, acc, fr, st) ==
    IF left = 0
    THEN [exc |-> "", instances |-> SubSeq(acc, 1, IF Len(acc) < count THEN Len(acc) ELSE count),
          st |-> st, left |-> left, last |-> 0, ovr |-> ovr]
    ELSE Only({IF e.exc # ""
               THEN [exc |-> e.exc, instances |-> <<>>, st |-> e.st, left |-> left - 1,
                     last |-> 0, ovr |-> e.overrides]
               ELSE Only({LET item_val == DictGet(b.instance.fields, filter_by)
                              keep == filter_by = "" \/ PyEq(item_val, target_val)
                          IN  Only({[rest EXCEPT
                                        !.last = IF keep /\ @ = 0 /\ Len(acc) < count
                                                 THEN Passes(count, filter_by) - left + 1
                                                 ELSE @]
                                    : rest \in {BuildLoop_nobreak(
                                                    output_model, e.overrides, seed, left - 1, count,
                                                    filter_by, target_val,
                                                    IF keep THEN Append(acc, b.instance)
                                                    ELSE acc,
                                                    b.fr, b.st)}})
                          : b \in {FactoryBuild(output_model, e.result, fr, e.st)}})
               : e \in {evaluate_overrides(ovr, seed, st)}})

RECURSIVE BuildLoop(_, _, _, _, _, _, _, _, _, _)
\* the loops of build_list: `left` more passes, stopping at `count` items when
\* filtering: [exc, instances, st, left, last]; left is the number of passes not
\* made, last the pass that appended the last item (0 if none was appended)
BuildLoop(output_model, ovr, seed, left, count, filter_by, target_val, acc, fr, st) ==
    IF left = 0 \/ (filter_by # "" /\ Len(acc) >= count)
    THEN [exc |-> "", instances |-> acc, st |-> st, left |-> left, last |-> 0, ovr |-> ovr]
    ELSE Only({IF e.exc # ""
               THEN [exc |-> e.exc, instances |-> <<>>, st |-> e.st, left |-> left - 1,
                     last |-> 0, ovr |-> e.overrides]
               ELSE Only({LET \* getattr(item, filter_by, None)
                              item_val == DictGet(b.instance.fields, filter_by)
                              keep == filter_by = "" \/ PyEq(item_val, target_val)
                          IN  Only({[rest EXCEPT
                                        !.last = IF keep /\ @ = 0
                                                 THEN Passes(count, filter_by) - left + 1
                                                 ELSE @]
                                    : rest \in {BuildLoop(output_model, e.overrides, seed, left - 1,
                                                          count, filter_by, target_val,
                                                          IF keep THEN Append(acc, b.instance)
                                                          ELSE acc,
                                                          b.fr, b.st)}})
                          : b \in {FactoryBuild(output_model, e.result, fr, e.st)}})
               : e \in {evaluate_overrides(ovr, seed, st)}})

\* factory.build_list: [exc, overrides, instances, st, attempts, last]; filter_by = ""
\* stands for None; attempts is the number of passes made
build_list(output_model, input_data, count, seed, filter_by, st, reg) ==
    Only({IF r.exc # ""
          THEN [exc |-> r.exc, overrides |-> <<>>, instances |-> <<>>, st |-> r.st,
                attempts |-> 0, last |-> 0]
          ELSE Only({[exc |-> l.exc, overrides |-> l.ovr, instances |-> l.instances,
                      st |-> l.st, attempts |-> Passes(count, filter_by) - l.left,
                      last |-> l.last]
                     : l \in {BuildLoop(output_model, r.overrides, seed,
                                        Passes(count, filter_by), count,
                                        filter_by, DictGet(input_data, filter_by), <<>>,
                                        create_factory(seed), r.st)}})
          : r \in {resolve_overrides(output_model, input_data, seed, NoneV, st, reg)}})

(***************************************************************************)
(* The inputs the model draws from.                                        *)
(***************************************************************************)
\* values of the input fields "a" and "b" (model_dump of the validated input)
InputValues ==
    {NoneV, IntV(0), BoolV(FALSE), StrV(""), DateV(0), DtV(1, ""),
     StrV("2024-01-03"), StrV("2024-01-02T00:00:00Z")}

Options == ListV(<<StrV("a"), StrV("b"), StrV("c")>>)

Inputs ==
    {[x \in {"a", "b", "options"} |-> IF x = "a" THEN va ELSE IF x = "b" THEN vb ELSE Options] :
        va \in InputValues, vb \in InputValues}

Seeds == {NoSeed} \cup 0..MaxSeed

\* a starlette Request: its headers and cookies
SomeRequest ==
    [kind |-> "request", headers |-> [x \in {"X-Id"} |-> StrV("h1")],
     cookies |-> [x \in {"sid"} |-> StrV("c1")]]

Str == Plain(Builtin("str"))
Datetime == Plain(Builtin("datetime"))

\* link metadata of one field
CopyLinks == {<<FromInput("a")>>, <<FromInput("typo")>>}
RangeLinks ==
    {<<DateRangeFrom("a", "b")>>, <<DateRangeFrom("a", "a")>>, <<DateRangeFrom("b", "typo")>>}
WhenLinks ==
    {<<WhenInput("b", BoolV(FALSE), FromInput("a"))>>,
     <<WhenInput("b", StrV(""), DateRangeFrom("a", "a"))>>,
     <<WhenInput("typo", NoneV, FromInput("a"))>>,
     <<WhenInput("a", DateV(0), DateRangeFrom("a", "b"))>>}
RequestLinks == {<<FromHeader("X-Id")>>, <<FromHeader("X-None")>>, <<FromCookie("sid")>>}
PluginLinks == {<<RandomChoice("options")>>, <<RandomChoice("a")>>}
ScalarLinks == {<<>>} \cup CopyLinks \cup RangeLinks \cup WhenLinks \cup RequestLinks \cup PluginLinks

\* two-field output models: any link on x, next to a copied, sampled or plugin field y
FlatModels ==
    {Model("Out", <<Fld("x", Str, lx), Fld("y", Datetime, ly)>>) :
        lx \in ScalarLinks,
        ly \in {<<FromInput("b")>>, <<DateRangeFrom("a", "b")>>, <<RandomChoice("options")>>}}

EngineModels == FlatModels

RECURSIVE UsesRequest(_)
UsesRequest(model) ==
    \E i \in 1..Len(model.model_fields) :
        LET fld == model.model_fields[i]
            sub == get_nested_model(fld.annotation)
        IN  \/ ~IsNone(sub) /\ UsesRequest(sub)
            \/ \E j \in 1..Len(fld.metadata) : fld.metadata[j].kind \in {"FromHeader", "FromCookie"}

\* the request contexts worth passing for a model
RequestsFor(model) == IF UsesRequest(model) THEN {NoneV, SomeRequest} ELSE {NoneV}

(***************************************************************************)
(* State machine of the engine: registering link classes, resolving an     *)
(* override map, evaluating it (any number of times).                      *)
(***************************************************************************)
NoCall == [op |-> "none"]
NotEvaluated == [exc |-> "none", result |-> <<>>]
NotBuilt == <<>>

St == [rngs |-> rngs, grand |-> grand, frand |-> frand]

\* the endpoints with a rate limit, (path, method) -> rate_limit
RateKeys == {<<"/users", "GET">>, <<"/users", "POST">>, <<"/items", "GET">>}
RateLimit(key) ==
    IF key = <<"/users", "GET">> THEN 2 ELSE IF key = <<"/users", "POST">> THEN 1 ELSE 0
\* worker threads serving requests
Threads == {"t1", "t2"}
NoThread == "none"
Idle == [pc |-> "idle", key |-> <<"", "">>, limit |-> 0, now |-> 0, result |-> ""]
\* StatefulStore() starts with an empty dict
NoItems == [path \in {} |-> <<>>]
NoResponse == [op |-> "none"]

Init ==
    /\ registry = {}
    /\ grand = 0
    /\ frand = 0
    /\ call = NoCall
    /\ overrides = <<>>
    /\ rngs = <<>>
    /\ resolved = NotEvaluated
    /\ built = NotBuilt
    /\ others = 0
    /\ specs = <<>>
    /\ errors = <<>>
    /\ timestamps = [key \in RateKeys |-> <<>>]
    /\ lock = NoThread
    /\ threads = [t \in Threads |-> Idle]
    /\ clock = 0
    /\ admitted = [key \in RateKeys |-> <<>>]
    /\ calls = 0
    /\ store = NoItems
    /\ response = NoResponse

\* plugins.register_link (link classes are registered at startup, before any request)
RegisterLink(link_class) ==
    /\ call.op = "none"
    /\ link_class \notin registry
    /\ registry' = registry \cup {link_class}
    /\ UNCHANGED <<services, grand, frand, call, overrides, rngs, resolved, built, others, specs, errors>>

\* a call resolve_overrides(output_model, input_model, input_instance, seed, request)
ResolveOverrides(output_model, input_data, seed, request) ==
    LET r == resolve_overrides(output_model, input_data, seed, request,
                               [rngs |-> <<>>, grand |-> grand, frand |-> frand], registry)
    IN  /\ call.op = "none"
        /\ call' = [op |-> "resolve", output_model |-> output_model, input_data |-> input_data,
                    seed |-> seed, request |-> request, count |-> 0, filter_by |-> "",
                    exc |-> r.exc, runs |-> 1]
        /\ overrides' = r.overrides
        /\ rngs' = r.st.rngs
        /\ grand' = r.st.grand
        /\ frand' = r.st.frand
        /\ resolved' = NotEvaluated
        /\ UNCHANGED <<services, registry, built, others, specs, errors>>

\* a call _evaluate_overrides(overrides, seed) on the map resolved last
EvaluateOverrides ==
    /\ call.op \in {"resolve", "evaluate"}
    /\ call.exc = ""
    /\ LET e == evaluate_overrides(overrides, call.seed, St)
       IN  /\ resolved' = [exc |-> e.exc, result |-> e.result]
           /\ overrides' = e.overrides
           /\ rngs' = e.st.rngs
           /\ grand' = e.st.grand
           /\ frand' = e.st.frand
    /\ call' = [call EXCEPT !.op = "evaluate"]
    /\ UNCHANGED <<services, registry, built, others, specs, errors>>

\* the effect of a build on the state: b is what build_one / build_list returned
BuildEffect(op, output_model, input_data, count, seed, filter_by, runs, b) ==
    /\ call' = [op |-> op, output_model |-> output_model, input_data |-> input_data,
                seed |-> seed, request |-> NoneV, count |-> count, filter_by |-> filter_by,
                exc |-> b.exc, runs |-> runs,
                attempts |-> IF "attempts" \in DOMAIN b THEN b.attempts ELSE 1,
                last |-> IF "last" \in DOMAIN b THEN b.last ELSE 0]
    /\ overrides' = b.overrides
    /\ rngs' = b.st.rngs
    /\ grand' = b.st.grand
    /\ frand' = b.st.frand
    /\ resolved' = NotEvaluated
    /\ built' = b.instances
    /\ UNCHANGED <<services, registry, others, specs, errors>>

FreshSt == [rngs |-> <<>>, grand |-> grand, frand |-> frand]

\* a call build_one(output_model, input_model, input_instance, seed)
BuildOne(output_model, input_data, seed) ==
    /\ call.op = "none"
    /\ BuildEffect("build_one", output_model, input_data, 1, seed, "", 1,
                   build_one(output_model, input_data, seed, FreshSt, registry))

\* a call build_list(output_model, input_model, input_instance, count, seed, filter_by)
BuildList(output_model, input_data, count, seed, filter_by) ==
    /\ call.op = "none"
    /\ BuildEffect("build_list", output_model, input_data, count, seed, filter_by, 1,
                   build_list(output_model, input_data, count, seed, filter_by, FreshSt,
                              registry))

\* the same build call once more, with the same arguments
BuildAgain ==
    /\ call.op \in {"build_one", "build_list"}
    /\ call.runs = 1
    /\ BuildEffect(call.op, call.output_model, call.input_data, call.count, call.seed,
                   call.filter_by, 2,
                   IF call.op = "build_one"
                   THEN build_one(call.output_model, call.input_data, call.seed, FreshSt,
                                  registry)
                   ELSE build_list(call.output_model, call.input_data, call.count, call.seed,
                                   call.filter_by, FreshSt, registry))

\* other code draws from the module-level generator `random` between two builds
OtherRandomUse ==
    /\ call.op \in {"build_one", "build_list"}
    /\ call.runs = 1
    /\ others < MaxOther
    /\ grand' = RngStep(grand)
    /\ others' = others + 1
    /\ UNCHANGED <<services, registry, frand, call, overrides, rngs, resolved, built, specs, errors>>

\* another unseeded factory draws from the generator the factories share
OtherFactoryUse ==
    /\ call.op \in {"build_one", "build_list"}
    /\ call.runs = 1
    /\ others < MaxOther
    /\ frand' = RngStep(frand)
    /\ others' = others + 1
    /\ UNCHANGED <<services, registry, grand, call, overrides, rngs, resolved, built, specs, errors>>

Next ==
    \/ \E link_class \in PluginKinds : RegisterLink(link_class)
    \/ \E output_model \in EngineModels, input_data \in Inputs, seed \in Seeds :
          \E request \in RequestsFor(output_model) :
              ResolveOverrides(output_model, input_data, seed, request)
    \/ EvaluateOverrides

Spec == Init /\ [][Next]_vars

(***************************************************************************)
(* Properties of the engine.                                               *)
(***************************************************************************)
Keys(ovr) == {ovr[i].key : i \in 1..Len(ovr)}
EntryOf(ovr, key) == ovr[CHOOSE i \in 1..Len(ovr) : ovr[i].key = key].value
Resolving == call.op \in {"resolve", "evaluate"}
\* the generator of the top-level resolve_overrides call
CallRng == IF call.seed # NoSeed THEN 1 ELSE 0

RECURSIVE RngSteps(_, _)
RngSteps(k, x) == IF k = 0 THEN x ELSE RngSteps(k - 1, RngStep(x))

\* the closures of a map that sample (end > start) from generator r
Sampling(ovr, r) ==
    {i \in 1..Len(ovr) : /\ IsCallable(ovr[i].value)
                         /\ ovr[i].value.r = r
                         /\ ovr[i].value.e.n > ovr[i].value.s.n}

\* C2: every invocation of a DateRangeFrom closure returns a value between start
\* and end when end > start, and returns start itself when end <= start; an
\* evaluation advances each generator once per sampling closure and not at all
\* for a closure with end <= start.
C2_RangeWithinBounds ==
    [][(call'.op = "evaluate" /\ resolved'.exc = "") =>
          /\ \A i \in 1..Len(call.output_model.model_fields) :
                LET fld == call.output_model.model_fields[i]
                    meta == get_field_metadata(call.output_model, fld.name, registry)
                IN  (IsNone(get_nested_model(fld.annotation)) /\ meta.kind = "DateRangeFrom"
                        /\ fld.name \in Keys(overrides)) =>
                       /\ IsCallable(EntryOf(overrides, fld.name))
                       /\ EntryOf(overrides, fld.name).s =
                              to_datetime(DictGet(call.input_data, meta.start)).value
                       /\ EntryOf(overrides, fld.name).e =
                              to_datetime(DictGet(call.input_data, meta.end)).value
          /\ \A i \in 1..Len(overrides) :
                LET f == overrides[i].value
                    v == resolved'.result[overrides[i].key]
                IN  IsCallable(f) =>
                       /\ v.kind = "dt"
                       /\ f.e.n > f.s.n => (f.s.n <= v.n /\ v.n <= f.e.n)
                       /\ f.e.n <= f.s.n => v = f.s
          /\ grand' = RngSteps(Cardinality(Sampling(overrides, 0)), grand)
          /\ \A r \in 1..Len(rngs) :
                rngs'[r] = RngSteps(Cardinality(Sampling(overrides, r)), rngs[r])]_vars

\* a sampling closure and a closure with end <= start were both invoked
C2_Witness ==
    /\ call.op = "evaluate"
    /\ resolved.exc = ""
    /\ \E i, j \in 1..Len(overrides) :
          /\ IsCallable(overrides[i].value) /\ IsCallable(overrides[j].value)
          /\ overrides[i].value.e.n > overrides[i].value.s.n + 1
          /\ resolved.result[overrides[i].key].n > overrides[i].value.s.n
          /\ overrides[j].value.e.n <= overrides[j].value.s.n
          /\ resolved.result[overrides[j].key] = overrides[j].value.s

\* what a stand-alone FromInput or DateRangeFrom link yields for the call's input
StandAlone(link) ==
    IF link.kind = "FromInput"
    THEN FromInputOverride(link, call.input_data, [rngs |-> <<>>])
    ELSE DateRangeOverride(link, call.input_data, CallRng, [rngs |-> <<>>])

\* C6: a WhenInput field is in the override map iff the condition holds and the
\* inner link would yield an override by itself, and then it is that override.
C6_WhenInputAsInner ==
    Resolving =>
        \A i \in 1..Len(call.output_model.model_fields) :
            LET fld == call.output_model.model_fields[i]
                meta == get_field_metadata(call.output_model, fld.name, registry)
                cond == PyEq(DictGet(call.input_data, meta.condition_field),
                             meta.condition_value)
                alone == StandAlone(meta.then_link)
            IN  (IsNone(get_nested_model(fld.annotation)) /\ meta.kind = "WhenInput") =>
                    /\ fld.name \in Keys(overrides) <=> (cond /\ alone.has)
                    /\ fld.name \in Keys(overrides) =>
                          EntryOf(overrides, fld.name) = alone.value

\* a WhenInput field was resolved to a range closure, another to a copied value
C6_Witness ==
    /\ Resolving
    /\ \E i \in 1..Len(call.output_model.model_fields) :
          LET fld == call.output_model.model_fields[i]
              meta == get_field_metadata(call.output_model, fld.name, registry)
          IN  /\ meta.kind = "WhenInput"
              /\ meta.then_link.kind = "DateRangeFrom"
              /\ fld.name \in Keys(overrides)
              /\ IsCallable(EntryOf(overrides, fld.name))
              /\ call.seed # NoSeed

\* the cases in which a link yields no override
NotApplicable(meta, input_data) ==
    \/ /\ meta.kind = "FromInput"
       /\ IsNone(DictGet(input_data, meta.field))
    \/ /\ meta.kind = "WhenInput"
       /\ ~PyEq(DictGet(input_data, meta.condition_field), meta.condition_value)
    \/ /\ meta.kind = "DateRangeFrom"
       /\ \E v \in {DictGet(input_data, meta.start), DictGet(input_data, meta.end)} :
             v.kind \notin {"dt", "date"} /\ (v.kind = "str" => v.s \notin DOMAIN IsoFormats
                                                               /\ ReplaceZ(v.s) \notin DOMAIN IsoFormats)

\* the model without its i-th field
Without(model, i) ==
    Model(model.name, SubSeq(model.model_fields, 1, i - 1)
                          \o SubSeq(model.model_fields, i + 1, Len(model.model_fields)))

\* C7: resolve_overrides does not raise, and a field whose FromInput value is
\* missing or None, whose WhenInput condition is false, or whose DateRangeFrom
\* start or end is missing, None or not convertible has no entry in the map (none
\* with value None either); the map is the one the other fields alone would give.
C7_NoOverrideNoError ==
    Resolving =>
        /\ call.exc = ""
        /\ \A i \in 1..Len(overrides) : ~IsNone(overrides[i].value)
        /\ \A i \in 1..Len(call.output_model.model_fields) :
              LET fld == call.output_model.model_fields[i]
                  meta == get_field_metadata(call.output_model, fld.name, registry)
              IN  (IsNone(get_nested_model(fld.annotation))
                      /\ NotApplicable(meta, call.input_data)) =>
                      /\ fld.name \notin Keys(overrides)
                      /\ overrides =
                            resolve_overrides(Without(call.output_model, i), call.input_data,
                                              call.seed, call.request,
                                              [rngs |-> <<>>, grand |-> 0, frand |-> 0],
                                              registry).overrides

\* a DateRangeFrom with an unconvertible string was skipped next to a resolved field
C7_Witness ==
    /\ Resolving
    /\ Len(overrides) = 1
    /\ \E i \in 1..Len(call.output_model.model_fields) :
          LET fld == call.output_model.model_fields[i]
              meta == get_field_metadata(call.output_model, fld.name, registry)
          IN  /\ meta.kind = "DateRangeFrom"
              /\ DictGet(call.input_data, meta.start) = StrV("")
              /\ ~IsNone(DictGet(call.input_data, meta.end))
              /\ fld.name \notin Keys(overrides)

(***************************************************************************)
(* Evaluation of maps with computed fields: three-field models in which    *)
(* any field may be computed from the others, in every declaration order.  *)
(***************************************************************************)
ComputedModels ==
    {Model("Full", <<Fld("p", Str, lp), Fld("q", Str, lq), Fld("r", Str, lr)>>) :
        lp \in {<<FromInput("a")>>, <<ComputedFrom(<<"q">>, "f")>>,
                <<ComputedFrom(<<"q", "r">>, "f")>>, <<ComputedFrom(<<"r", "q">>, "f")>>},
        lq \in {<<>>, <<FromInput("b")>>, <<DateRangeFrom("a", "b")>>,
                <<ComputedFrom(<<"r">>, "g")>>, <<ComputedFrom(<<"p">>, "g")>>},
        lr \in {<<FromInput("a")>>, <<DateRangeFrom("a", "b")>>,
                <<ComputedFrom(<<"p", "q">>, "h")>>, <<ComputedFrom(<<>>, "h")>>}}

ComputedInputs ==
    {[x \in {"a", "b", "options"} |-> IF x = "a" THEN va ELSE IF x = "b" THEN vb ELSE Options] :
        va \in {NoneV, IntV(0), DateV(0), StrV("2024-01-02T00:00:00Z")},
        vb \in {NoneV, StrV(""), DtV(1, ""), StrV("2024-01-03")}}

NextComputed ==
    \/ \E output_model \in ComputedModels, input_data \in ComputedInputs, seed \in Seeds :
          \/ ResolveOverrides(output_model, input_data, seed, NoneV)
          \/ BuildOne(output_model, input_data, seed)
    \/ EvaluateOverrides

SpecComputed == Init /\ [][NextComputed]_vars

\* the computed markers of a map: key -> dependency tuple
ComputedKeys(ovr) == {k \in Keys(ovr) : IsComputedMarker(EntryOf(ovr, k))}
DepsOf(ovr, k) ==
    LET d == EntryOf(ovr, k).items["_computed"] IN {d[j] : j \in 1..Len(d)}

\* every dependency of every computed field is a key of the map
DepsInMap(ovr) == \A k \in ComputedKeys(ovr) : DepsOf(ovr, k) \subseteq Keys(ovr)

RECURSIVE Reach(_, _, _)
\* the fields reachable from the set `from` along dependencies, in at most n steps
Reach(ovr, from, n) ==
    IF n = 0 THEN from
    ELSE Reach(ovr, from \cup UNION {DepsOf(ovr, k) : k \in from \cap ComputedKeys(ovr)}, n - 1)

\* no computed field depends on itself, directly or through other computed fields
Acyclic(ovr) ==
    \A k \in ComputedKeys(ovr) : k \notin Reach(ovr, DepsOf(ovr, k), Len(ovr))

\* C4 (as claimed): evaluating a map whose computed dependencies all exist in
\* the map and form an acyclic graph never fails to find a dependency's value,
\* whatever the declaration order and also when a dependency is itself computed.
C4_TopologicalOrder ==
    (call.op = "evaluate" /\ DepsInMap(overrides) /\ Acyclic(overrides)) =>
        resolved.exc # "KeyError"

\* the computed fields of a map whose dependencies are non-computed fields of the map
PlainDeps(ovr) ==
    {k \in ComputedKeys(ovr) : DepsOf(ovr, k) \subseteq Keys(ovr) \ ComputedKeys(ovr)}

\* the field k of `values` is fn applied to the dependencies' values in `values`
IsApplied(ovr, k, values) ==
    LET d == EntryOf(ovr, k).items["_computed"]
    IN  values[k] = Apply(EntryOf(ovr, k).items["_fn"], [j \in 1..Len(d) |-> values[d[j]]])

\* C5: when every computed field of the map depends on non-computed fields of
\* the map only, evaluation finds every dependency; and whenever an evaluation
\* completes, such a field's value is fn applied to the evaluated values of its
\* dependencies in the order of the tuple, which are the values the built
\* instance carries for the dependency fields.
C5_ComputedValue ==
    /\ call.op = "evaluate" =>
          /\ PlainDeps(overrides) = ComputedKeys(overrides) => resolved.exc # "KeyError"
          /\ resolved.exc = "" =>
                \A k \in PlainDeps(overrides) : IsApplied(overrides, k, resolved.result)
    /\ call.op = "build_one" =>
          /\ PlainDeps(overrides) = ComputedKeys(overrides) => call.exc # "KeyError"
          /\ call.exc = "" =>
                /\ Len(built) = 1
                /\ \A k \in PlainDeps(overrides) : IsApplied(overrides, k, built[1].fields)
                /\ \A k \in Keys(overrides) \ ComputedKeys(overrides) :
                      ~IsCallable(EntryOf(overrides, k)) =>
                          built[1].fields[k] = EntryOf(overrides, k)

\* an instance with a field computed from a sampled field and a copied one
C5_Witness ==
    /\ call.op = "build_one"
    /\ call.exc = ""
    /\ "p" \in ComputedKeys(overrides)
    /\ EntryOf(overrides, "p").items["_computed"] = <<"r", "q">>
    /\ IsCallable(EntryOf(overrides, "r"))
    /\ built[1].fields["p"].args[1] = built[1].fields["r"]
    /\ built[1].fields["r"] # EntryOf(overrides, "r").s
    /\ built[1].fields["p"].args[2] = call.input_data["b"]

(***************************************************************************)
(* Building responses: build_one and build_list, repeated with the same    *)
(* arguments after other code has used the shared generators.              *)
(***************************************************************************)
Inner ==
    Model("Inner", <<Fld("v", Str, <<FromInput("a")>>),
                     Fld("w", Datetime, <<DateRangeFrom("a", "b")>>),
                     Fld("u", Str, <<>>)>>)

BuildModels ==
    {Model("Out", <<Fld("x", Str, lx), Fld("y", Datetime, ly), Fld("z", Str, lz)>>) :
        lx \in {<<FromInput("a")>>, <<WhenInput("b", BoolV(FALSE), FromInput("a"))>>,
                <<RandomChoice("options")>>},
        ly \in {<<>>, <<DateRangeFrom("a", "b")>>},
        lz \in {<<>>, <<ComputedFrom(<<"y", "x">>, "f")>>}}
    \cup {Model("Outer", <<Fld("inner", Plain(Inner), <<>>), Fld("x", Str, lx)>>) :
            lx \in {<<>>, <<FromInput("a")>>}}

BuildInputs ==
    {[x \in {"a", "b", "options"} |-> IF x = "a" THEN va ELSE IF x = "b" THEN vb ELSE Options] :
        va \in {NoneV, IntV(0), BoolV(FALSE), StrV(""), DateV(0), StrV("2024-01-03")},
        vb \in {BoolV(FALSE), DtV(1, ""), StrV("2024-01-03")}}

NextBuild ==
    \/ \E link_class \in PluginKinds : RegisterLink(link_class)
    \/ \E output_model \in BuildModels, input_data \in BuildInputs, seed \in Seeds :
          \/ BuildOne(output_model, input_data, seed)
          \/ \E count \in 1..MaxCount : BuildList(output_model, input_data, count, seed, "")
    \/ BuildAgain
    \/ OtherRandomUse
    \/ OtherFactoryUse

SpecBuild == Init /\ [][NextBuild]_vars

Building == call.op \in {"build_one", "build_list"}

RECURSIVE CopiedInto(_, _, _)
\* every FromInput field of `model` (nested models included) whose input value is
\* not None has that value as its entry of the map `ovr` and, when an instance
\* is given, as its field of the instance
CopiedInto(model, ovr, instances) ==
    \A i \in 1..Len(model.model_fields) :
        LET fld == model.model_fields[i]
            sub == get_nested_model(fld.annotation)
            meta == get_field_metadata(model, fld.name, registry)
            val == DictGet(call.input_data, meta.field)
        IN  IF ~IsNone(sub)
            THEN /\ fld.name \in Keys(ovr)
                 /\ CopiedInto(sub, EntryOf(ovr, fld.name).items["_overrides"],
                               [k \in 1..Len(instances) |-> instances[k].fields[fld.name]])
            ELSE (meta.kind = "FromInput" /\ ~IsNone(val)) =>
                    /\ fld.name \in Keys(ovr)
                    /\ EntryOf(ovr, fld.name) = val
                    /\ \A k \in 1..Len(instances) : instances[k].fields[fld.name] = val

\* C1: a FromInput(f) field whose input value at f is not None (0, False and ""
\* included) has exactly that value as its override, and every instance that
\* build_one or build_list returns carries it.
C1_CopyFromInput ==
    Building =>
        /\ CopiedInto(call.output_model, overrides, built)
        /\ call.exc = "" =>
              Len(built) = (IF call.op = "build_one" THEN 1 ELSE call.count)

\* a list of two instances that all carry the copied falsy value
C1_Witness ==
    /\ call.op = "build_list"
    /\ call.exc = ""
    /\ Len(built) = 2
    /\ call.input_data["a"] = IntV(0)
    /\ get_field_metadata(call.output_model, "x", registry) = FromInput("a")
    /\ built[1].fields["x"] = IntV(0)
    /\ built[2].fields["x"] = IntV(0)

\* C3: a build repeated with the same seed (not None), input and output model
\* returns the same instances, and raises the same, whatever use other code
\* made of the shared generators in between.
C3_SeededDeterminism ==
    [][(Building /\ call.seed # NoSeed /\ call.runs = 1 /\ call'.runs = 2) =>
          (built' = built /\ call'.exc = call.exc)]_vars

\* a seeded list was rebuilt after other draws: its sampled values differ from
\* item to item and it holds a plugin's choice and generated filler
C3_Witness ==
    /\ call.op = "build_list"
    /\ call.runs = 2
    /\ call.seed # NoSeed
    /\ others = MaxOther
    /\ grand # 0
    /\ Len(built) = 2
    /\ get_field_metadata(call.output_model, "x", registry) = RandomChoice("options")
    /\ get_field_metadata(call.output_model, "y", registry) = DateRangeFrom("a", "b")
    /\ built[1].fields["y"] # built[2].fields["y"]

RECURSIVE Shape(_)
\* an override map with each closure's generator reduced to seeded / module-level
Shape(ovr) ==
    [i \in 1..Len(ovr) |->
        LET v == ovr[i].value
        IN  [key |-> ovr[i].key,
             value |-> IF IsCallable(v) THEN [v EXCEPT !.r = IF @ = 0 THEN 0 ELSE 1]
                       ELSE IF IsNestedBundle(v)
                       THEN [nested |-> v.items["_nested"],
                             overrides |-> Shape(v.items["_overrides"])]
                       ELSE v]]

\* the fields of `model` typed as a nested object schema
NestedFields(model) ==
    {i \in 1..Len(model.model_fields) : ~IsNone(get_nested_model(model.model_fields[i].annotation))}

\* C11: after a build that did not raise, for each field of the output model
\* typed as a nested schema, the override map holds a bundle of that schema
\* whose overrides are those of resolve_overrides(Nested, input) called on its
\* own, and the nested instance of the first item built carries, for each inner
\* linked field, the value the stand-alone map evaluates to: the copied value
\* itself, and for a range thunk a value within its bounds that, under a seed,
\* is the very value the stand-alone evaluation yields.
C11_NestedAsTopLevel ==
    (Building /\ call.exc = "") =>
        \A i \in NestedFields(call.output_model) :
            LET fld == call.output_model.model_fields[i]
                sub == get_nested_model(fld.annotation)
                alone == resolve_overrides(sub, call.input_data, call.seed, call.request,
                                           FreshSt, registry)
                values == evaluate_overrides(alone.overrides, call.seed, alone.st)
                inst == built[1].fields[fld.name]
            IN  /\ fld.name \in Keys(overrides)
                /\ IsNestedBundle(EntryOf(overrides, fld.name))
                /\ EntryOf(overrides, fld.name).items["_nested"] = sub
                /\ Shape(EntryOf(overrides, fld.name).items["_overrides"]) = Shape(alone.overrides)
                /\ inst.kind = "obj" /\ inst.model = sub.name
                /\ \A k \in Keys(alone.overrides) :
                       LET v == EntryOf(alone.overrides, k)
                       IN  IF IsCallable(v)
                           THEN /\ inst.fields[k].kind = "dt"
                                /\ IF v.e.n <= v.s.n THEN inst.fields[k] = v.s
                                   ELSE v.s.n <= inst.fields[k].n /\ inst.fields[k].n <= v.e.n
                                /\ call.seed # NoSeed => inst.fields[k] = values.result[k]
                           ELSE inst.fields[k] = v

\* a seeded build whose nested instance holds a copied value and a sampled one
C11_Witness ==
    /\ call.op = "build_one" /\ call.exc = "" /\ call.seed # NoSeed
    /\ call.output_model.name = "Outer"
    /\ Len(EntryOf(overrides, "inner").items["_overrides"]) = 2
    /\ built[1].fields["inner"].fields["v"] = call.input_data["a"]
    /\ LET w == EntryOf(EntryOf(overrides, "inner").items["_overrides"], "w")
       IN  /\ w.s.n < w.e.n
           /\ built[1].fields["inner"].fields["w"].n > w.s.n

RECURSIVE Closures(_)
\* the range thunks of an override map, nested bundles included
Closures(ovr) ==
    UNION {LET v == ovr[i].value
           IN  IF IsCallable(v) THEN {v}
               ELSE IF IsNestedBundle(v) THEN Closures(v.items["_overrides"])
               ELSE {}
           : i \in 1..Len(ovr)}

\* C13: a top-level resolution under a seed creates one generator, and every
\* range thunk of the resulting map, those inside nested bundles included,
\* draws from it.
C13_OneSharedRng ==
    (Building /\ call.seed # NoSeed /\ call.exc = "") =>
        /\ Len(rngs) = 1
        /\ \A f \in Closures(overrides) : f.r = 1

(***************************************************************************)
(* Registered link classes whose resolve returns objects of any shape.     *)
(***************************************************************************)
LinkClasses == {"FromEnv", "RandomChoice", "Returns"}

\* what a resolve may return: None, plain values, a callable, and dicts with
\* and without the keys _evaluate_overrides looks for
Returned ==
    {NoneV, StrV("v"), IntV(0),
     make_random_datetime_closure(DtV(1, ""), DtV(1, ""), 0),
     Dict([k \in {"_computed", "_fn"} |-> IF k = "_fn" THEN "h" ELSE <<>>]),
     Dict([k \in {"_nested", "_overrides"} |-> IF k = "_nested" THEN Inner ELSE <<>>]),
     Dict([k \in {"_computed"} |-> <<>>])}

PluginModels ==
    {Model("Out", <<Fld("x", Str, <<lx>>), Fld("y", Str, ly)>>) :
        lx \in {Returns(v) : v \in Returned}
                 \cup {FromEnv("TEST_VAR"), FromEnv("UNSET"), RandomChoice("options"),
                       RandomChoice("a")},
        ly \in {<<>>, <<RandomChoice("options")>>, <<FromInput("a")>>}}

PluginInputs ==
    {[x \in {"a", "b", "options"} |-> IF x = "a" THEN va ELSE IF x = "b" THEN NoneV ELSE Options] :
        va \in {NoneV, StrV(""), ListV(<<>>)}}

NextPlugin ==
    \/ \E link_class \in LinkClasses : RegisterLink(link_class)
    \/ \E output_model \in PluginModels, input_data \in PluginInputs, seed \in Seeds :
          ResolveOverrides(output_model, input_data, seed, NoneV)
    \/ EvaluateOverrides

SpecPlugin == Init /\ [][NextPlugin]_vars

\* the objects meta.resolve(input_data, rng) can return for the call's input
CanReturn(meta) ==
    IF meta.kind = "RandomChoice"
    THEN LET opts == DictGet(call.input_data, meta.field)
         IN  IF opts.kind = "list" /\ Len(opts.items) > 0
             THEN {opts.items[j] : j \in 1..Len(opts.items)}
             ELSE {NoneV}
    ELSE {PluginResolve(meta, call.input_data, CallRng, St).value}

\* C12: after a resolution and an evaluation that did not raise, a field whose
\* metadata is an instance of a registered link class has no override when
\* resolve returned None, and otherwise has the returned object as its override
\* and, unchanged, as its evaluated value, whatever the object's shape.
C12_PluginValueVerbatim ==
    (call.op = "evaluate" /\ resolved.exc = "") =>
        \A i \in 1..Len(call.output_model.model_fields) :
            LET fld == call.output_model.model_fields[i]
                meta == get_field_metadata(call.output_model, fld.name, registry)
            IN  (~IsNone(meta) /\ meta.kind \notin BuiltinLinkKinds) =>
                    IF fld.name \in Keys(overrides)
                    THEN /\ EntryOf(overrides, fld.name) \in CanReturn(meta) \ {NoneV}
                         /\ fld.name \in DOMAIN resolved.result
                         /\ resolved.result[fld.name] = EntryOf(overrides, fld.name)
                    ELSE /\ NoneV \in CanReturn(meta)
                         /\ fld.name \notin DOMAIN resolved.result

(***************************************************************************)
(* validation.py                                                           *)
(***************************************************************************)
\* str.upper() on the method names of the model
Upper(str) ==
    IF str = "get" THEN "GET" ELSE IF str = "post" THEN "POST" ELSE str

\* one error string: the parts the f-string is made of; field is the dotted path
Error(method, path, field, uses, ref, model) ==
    [method |-> method, path |-> path, field |-> field, uses |-> uses, ref |-> ref,
     model |-> model.name]

\* resolver.get_output_model_for_type
get_output_model_for_type(annotation) ==
    IF annotation.origin = "list" /\ Len(annotation.args) > 0 THEN annotation.args[1]
    ELSE IF annotation.origin = "" /\ IsModel(annotation.args[1]) THEN annotation.args[1]
    ELSE NoneV

\* a WhenInput whose then_link is not looked at
ThenLinkErrors_unchecked(then_link, input_model, path, method, field_prefix) == <<>>

\* _validate_output_links, the checks of a WhenInput's then_link (lines 75-86)
ThenLinkErrors(then_link, input_model, path, method, field_prefix) ==
    LET input_fields == FieldNames(input_model)
        err(uses, ref) == <<Error(method, path, field_prefix, uses, ref, input_model)>>
    IN  IF then_link.kind = "FromInput"
        THEN IF then_link.field \notin input_fields
             THEN err("WhenInput(then_link=FromInput)", then_link.field)
             ELSE <<>>
        ELSE IF then_link.kind = "DateRangeFrom"
        THEN (IF then_link.start \notin input_fields
              THEN err("WhenInput(then_link=DateRangeFrom)", then_link.start)
              ELSE <<>>)
             \o (IF then_link.end \notin input_fields
                 THEN err("WhenInput(then_link=DateRangeFrom)", then_link.end)
                 ELSE <<>>)
        ELSE <<>>

\* a check of ComputedFrom that reports the first missing dependency only
ComputedFromErrors_first(meta, output_model, path, method, field_prefix) ==
    LET missing == {j \in 1..Len(meta.fields) : meta.fields[j] \notin FieldNames(output_model)}
    IN  IF missing = {} THEN <<>>
        ELSE <<Error(method, path, field_prefix, "ComputedFrom",
                     meta.fields[CHOOSE j \in missing : \A k \in missing : j <= k],
                     output_model)>>

RECURSIVE DepErrors(_, _, _, _, _, _)
\* the loop `for dep in meta.fields` (lines 88-93), from dependency j on
DepErrors(meta, j, output_model, path, method, field_prefix) ==
    IF j > Len(meta.fields) THEN <<>>
    ELSE (IF meta.fields[j] \notin FieldNames(output_model)
          THEN <<Error(method, path, field_prefix, "ComputedFrom", meta.fields[j],
                       output_model)>>
          ELSE <<>>)
         \o DepErrors(meta, j + 1, output_model, path, method, field_prefix)

\* _validate_output_links, the checks of a ComputedFrom (lines 87-93)
ComputedFromErrors(meta, output_model, path, method, field_prefix) ==
    DepErrors(meta, 1, output_model, path, method, field_prefix)

\* _validate_output_links, the checks of one field's link (lines 55-93)
LinkErrors(meta, output_model, input_model, path, method, field_prefix) ==
    LET input_fields == FieldNames(input_model)
        err(uses, ref) == <<Error(method, path, field_prefix, uses, ref, input_model)>>
    IN  IF meta.kind = "FromInput"
        THEN IF meta.field \notin input_fields THEN err("FromInput", meta.field) ELSE <<>>
        ELSE IF meta.kind = "DateRangeFrom"
        THEN (IF meta.start \notin input_fields
              THEN err("DateRangeFrom with start", meta.start) ELSE <<>>)
             \o (IF meta.end \notin input_fields
                 THEN err("DateRangeFrom with end", meta.end) ELSE <<>>)
        ELSE IF meta.kind = "WhenInput"
        THEN (IF meta.condition_field \notin input_fields
              THEN err("WhenInput(condition_field)", meta.condition_field) ELSE <<>>)
             \o ThenLinkErrors(meta.then_link, input_model, path, method, field_prefix)
        ELSE IF meta.kind = "ComputedFrom"
        THEN ComputedFromErrors(meta, output_model, path, method, field_prefix)
        ELSE <<>>

RECURSIVE validate_output_links(_, _, _, _, _, _)
RECURSIVE ValidateFields(_, _, _, _, _, _, _)

\* the loop of _validate_output_links over output_model.model_fields, from field i on
ValidateFields(output_model, i, input_model, path, method, prefix, reg) ==
    IF i > Len(output_model.model_fields) THEN <<>>
    ELSE LET fld == output_model.model_fields[i]
             meta == get_field_metadata(output_model, fld.name, reg)
             field_prefix == Append(prefix, fld.name)
             here == IF IsNone(meta)
                     THEN LET nested == get_nested_model(fld.annotation)
                          IN  IF ~IsNone(nested)
                              THEN validate_output_links(nested, input_model, path, method,
                                                         field_prefix, reg)
                              ELSE <<>>
                     ELSE LinkErrors(meta, output_model, input_model, path, method,
                                     field_prefix)
         IN  here \o ValidateFields(output_model, i + 1, input_model, path, method, prefix, reg)

\* validation._validate_output_links: the errors it appends, in order
validate_output_links(output_model, input_model, path, method, prefix, reg) ==
    ValidateFields(output_model, 1, input_model, path, method, prefix, reg)

\* (methods[0] or "GET").upper()
SpecMethod(spec) == Upper(IF spec.methods[1] = "" THEN "GET" ELSE spec.methods[1])

\* validate_specs, the errors of one spec
SpecErrors(spec, reg) ==
    IF IsNone(spec.input_model) \/ IsNone(spec.output_annotation) THEN <<>>
    ELSE LET output_model == get_output_model_for_type(spec.output_annotation)
         IN  IF IsNone(output_model) \/ ~IsModel(spec.input_model) THEN <<>>
             ELSE validate_output_links(output_model, spec.input_model, spec.path,
                                        SpecMethod(spec), <<>>, reg)

RECURSIVE validate_specs(_, _)
\* validation.validate_specs
validate_specs(ss, reg) ==
    IF ss = <<>> THEN <<>>
    ELSE SpecErrors(Head(ss), reg) \o validate_specs(Tail(ss), reg)

(***************************************************************************)
(* Endpoint registration and the validation pass                           *)
(***************************************************************************)
MaxSpecs == 3

\* api.EndpointSpec, the attributes validate_specs reads
EndpointSpec(path, method, input_model, output_annotation) ==
    [path |-> path, methods |-> <<method>>, input_model |-> input_model,
     output_annotation |-> output_annotation]

\* SemblanceAPI._register: the decorator appends the endpoint's spec
Register(spec) ==
    /\ call.op = "none"
    /\ Len(specs) < MaxSpecs
    /\ specs' = Append(specs, spec)
    /\ UNCHANGED <<services, registry, grand, frand, call, overrides, rngs, resolved, built, others,
                   errors>>

\* a validation pass that adds its errors to those of the pass before
ValidateSpecs_accumulating ==
    /\ call.op = "none" \/ (call.op = "validate_specs" /\ call.runs = 1)
    /\ specs # <<>>
    /\ errors' = errors \o validate_specs(specs, registry)
    /\ call' = [op |-> "validate_specs", runs |-> IF call.op = "none" THEN 1 ELSE 2]
    /\ UNCHANGED <<services, registry, grand, frand, overrides, rngs, resolved, built, others, specs>>

\* errors = validate_specs(specs): a first pass over the registered specs, or
\* a second one right after the first
ValidateSpecs ==
    /\ call.op = "none" \/ (call.op = "validate_specs" /\ call.runs = 1)
    /\ specs # <<>>
    /\ errors' = validate_specs(specs, registry)
    /\ call' = [op |-> "validate_specs", runs |-> IF call.op = "none" THEN 1 ELSE 2]
    /\ UNCHANGED <<services, registry, grand, frand, overrides, rngs, resolved, built, others, specs>>

\* input schemas
Query == Model("Query", <<Fld("a", Str, <<>>), Fld("b", Str, <<>>), Fld("options", Str, <<>>)>>)
Narrow == Model("Narrow", <<Fld("a", Str, <<>>)>>)

\* link metadata of a field of a nested schema
InnerLinks ==
    {<<FromInput("a")>>, <<FromInput("typo")>>, <<DateRangeFrom("typo", "b")>>,
     <<WhenInput("nope", IntV(0), DateRangeFrom("a", "typo"))>>,
     <<ComputedFrom(<<"v">>, "g")>>, <<ComputedFrom(<<"x">>, "g")>>,
     <<ComputedFrom(<<"a", "typo">>, "g")>>}
InnerModels == {Model("Inner", <<Fld("v", Str, md)>>) : md \in InnerLinks}
\* a nested schema inside a nested schema
MidModels ==
    {Model("Mid", <<Fld("m", Plain(Model("Inner", <<Fld("v", Str, md)>>)), <<>>)>>) :
        md \in {<<FromInput("typo")>>, <<ComputedFrom(<<"m">>, "g")>>}}
NestedAnnotations ==
    UNION {{Plain(m), OptionalOf(m), ListOf(m)} : m \in InnerModels}
        \cup {Plain(m) : m \in MidModels}
\* link metadata of a field whose type is a nested schema
NestedLinks == {<<>>, <<FromInput("a")>>, <<FromInput("typo")>>, <<RandomChoice("options")>>}

\* link metadata of a scalar field of the endpoint's output schema
TopLinks ==
    {<<>>, <<FromInput("b")>>, <<FromInput("y")>>, <<DateRangeFrom("a", "b")>>,
     <<DateRangeFrom("typo", "typo")>>, <<WhenInput("a", IntV(0), FromInput("b"))>>,
     <<WhenInput("typo", IntV(0), FromInput("typo"))>>,
     <<WhenInput("b", IntV(0), DateRangeFrom("typo", "nope"))>>,
     <<WhenInput("a", IntV(0), FromHeader("X-Id"))>>,
     <<ComputedFrom(<<"y">>, "g")>>, <<ComputedFrom(<<"a", "y">>, "g")>>,
     <<ComputedFrom(<<"typo", "nope">>, "g")>>, <<ComputedFrom(<<"v">>, "g")>>,
     <<FromHeader("X-Id")>>, <<RandomChoice("typo")>>}

ValidatedModels ==
    {Model("Out", <<Fld("x", Str, lx), Fld("y", ay, ly)>>) :
        lx \in TopLinks, ay \in NestedAnnotations, ly \in NestedLinks}
    \cup {Model("Out", <<Fld("x", Str, lx), Fld("y", Str, ly)>>) :
            lx \in TopLinks, ly \in {<<>>, <<FromInput("typo")>>}}

\* the first endpoint registered
FirstSpecs ==
    {EndpointSpec("/items", m, i, Plain(o)) :
        m \in {"GET", "post"}, i \in {Query, Narrow}, o \in ValidatedModels}
\* the endpoints registered after it
FurtherSpecs ==
    {EndpointSpec("/more", "GET", Query, NoneV),
     EndpointSpec("/more", "", Query, Plain(Builtin("str"))),
     EndpointSpec("/more", "get", Narrow,
                  ListOf(Model("Out", <<Fld("x", Str, <<FromInput("b")>>)>>)))}

NextValidate ==
    \/ \E link_class \in PluginKinds : RegisterLink(link_class)
    \/ \E spec \in (IF specs = <<>> THEN FirstSpecs ELSE FurtherSpecs) : Register(spec)
    \/ ValidateSpecs

SpecValidate == Init /\ [][NextValidate]_vars

Validated == call.op = "validate_specs"

\* the specs that reach _validate_output_links
Checked == {k \in 1..Len(specs) : SpecErrors(specs[k], registry) # <<>>
                                   \/ (/\ ~IsNone(specs[k].output_annotation)
                                       /\ ~IsNone(get_output_model_for_type(
                                                      specs[k].output_annotation)))}
OutputOf(k) == get_output_model_for_type(specs[k].output_annotation)
\* no other spec of the list has the method and path of spec k
Alone(k) ==
    \A j \in 1..Len(specs) :
        j # k => SpecMethod(specs[j]) # SpecMethod(specs[k]) \/ specs[j].path # specs[k].path
\* the errors reported for spec k
ErrorsOf(k) ==
    {i \in 1..Len(errors) :
        errors[i].method = SpecMethod(specs[k]) /\ errors[i].path = specs[k].path}

\* the input field names a built-in link refers to, one entry per reference
RECURSIVE InputRefs(_)
InputRefs(meta) ==
    IF meta.kind = "FromInput" THEN <<meta.field>>
    ELSE IF meta.kind = "DateRangeFrom" THEN <<meta.start, meta.end>>
    ELSE IF meta.kind = "WhenInput"
    THEN <<meta.condition_field>>
         \o (IF meta.then_link.kind \in {"FromInput", "DateRangeFrom"}
             THEN InputRefs(meta.then_link) ELSE <<>>)
    ELSE <<>>

\* how many entries of seq are the name r
Occurrences(seq, r) == Cardinality({j \in 1..Len(seq) : seq[j] = r})

\* the linked fields of a schema: its own fields that carry a link, and those
\* of the nested schemas of its fields that carry none, with their dotted path
RECURSIVE Linked(_, _, _)
Linked(model, prefix, reg) ==
    UNION {LET fld == model.model_fields[i]
               meta == get_field_metadata(model, fld.name, reg)
               nested == get_nested_model(fld.annotation)
           IN  IF ~IsNone(meta)
               THEN {[field |-> Append(prefix, fld.name), meta |-> meta, owner |-> model]}
               ELSE IF ~IsNone(nested) THEN Linked(nested, Append(prefix, fld.name), reg)
               ELSE {}
           : i \in 1..Len(model.model_fields)}

InputUses == {"FromInput", "DateRangeFrom with start", "DateRangeFrom with end",
              "WhenInput(condition_field)", "WhenInput(then_link=FromInput)",
              "WhenInput(then_link=DateRangeFrom)"}
Names == {"a", "b", "options", "x", "y", "v", "m", "typo", "nope"}

\* C8: after validate_specs, for an endpoint and each linked field of its
\* output schema (a field of the schema itself, or of a nested schema reached
\* through fields without link metadata), the errors that carry the endpoint's
\* upper-cased method, its path, the field's dotted path and a name r are as
\* many as the references of the field's FromInput / DateRangeFrom / WhenInput
\* link to r when r is not a field of the input model, and none when it is;
\* and every input-reference error is one of these.
C8_OneErrorPerDanglingInputReference ==
    Validated =>
        \A k \in Checked :
            Alone(k) =>
                LET input_fields == FieldNames(specs[k].input_model)
                    linked == Linked(OutputOf(k), <<>>, registry)
                    about(x, r) == {i \in ErrorsOf(k) : /\ errors[i].uses \in InputUses
                                                        /\ errors[i].field = x.field
                                                        /\ errors[i].ref = r}
                IN  /\ \A x \in linked : \A r \in Names :
                           Cardinality(about(x, r)) =
                               IF r \in input_fields THEN 0
                               ELSE Occurrences(InputRefs(x.meta), r)
                    /\ \A i \in ErrorsOf(k) :
                           errors[i].uses \in InputUses =>
                               /\ errors[i].model = specs[k].input_model.name
                               /\ \E x \in linked : \E r \in Names : i \in about(x, r)

\* a lower-case method reported in upper case, two errors for one WhenInput
\* then_link on the top-level field, and an error with a dotted path
C8_Witness ==
    /\ Validated
    /\ specs[1].methods = <<"post">>
    /\ \E i, j, n \in 1..Len(errors) :
           /\ i # j
           /\ errors[i].method = "POST" /\ errors[i].path = "/items"
           /\ errors[i].field = <<"x">> /\ errors[j].field = <<"x">>
           /\ errors[i].uses = "WhenInput(then_link=DateRangeFrom)"
           /\ errors[j].uses = "WhenInput(then_link=DateRangeFrom)"
           /\ errors[n].field = <<"y", "v">> /\ errors[n].uses = "DateRangeFrom with start"
           /\ errors[n].ref = "typo"

\* C9: after validate_specs, for each linked field of an endpoint's output
\* schema that carries ComputedFrom, the ComputedFrom errors with the field's
\* dotted path and a name r are as many as the entries r of its dependency
\* list when r is not a field of the schema declaring the field, and none when
\* it is, whatever the input schema and the enclosing schemas contain; and
\* every ComputedFrom error is one of these.
C9_ComputedDependenciesAreSiblings ==
    Validated =>
        \A k \in Checked :
            Alone(k) =>
                LET linked == Linked(OutputOf(k), <<>>, registry)
                    about(x, r) == {i \in ErrorsOf(k) : /\ errors[i].uses = "ComputedFrom"
                                                        /\ errors[i].field = x.field
                                                        /\ errors[i].ref = r}
                IN  /\ \A x \in linked : \A r \in Names :
                           Cardinality(about(x, r)) =
                               IF x.meta.kind # "ComputedFrom" \/ r \in FieldNames(x.owner)
                               THEN 0
                               ELSE Occurrences(x.meta.fields, r)
                    /\ \A i \in ErrorsOf(k) :
                           errors[i].uses = "ComputedFrom" =>
                               \E x \in linked : /\ i \in about(x, errors[i].ref)
                                                 /\ errors[i].model = x.owner.name

\* a top-level computed field with two missing dependencies, and a nested one
\* whose dependency is a field of the enclosing schema and of no sibling
C9_Witness ==
    /\ Validated
    /\ \E i, j, n \in 1..Len(errors) :
           /\ errors[i].uses = "ComputedFrom" /\ errors[i].field = <<"x">>
           /\ errors[i].ref = "typo"
           /\ errors[j].uses = "ComputedFrom" /\ errors[j].field = <<"x">>
           /\ errors[j].ref = "nope"
           /\ errors[n].uses = "ComputedFrom" /\ errors[n].field = <<"y", "v">>
           /\ errors[n].ref = "x" /\ errors[n].model = "Inner"

\* the links resolve_overrides dispatches on: those of the nested schema for a
\* field it treats as nested, the field's own link otherwise
RECURSIVE Dispatched(_, _)
Dispatched(model, reg) ==
    UNION {LET fld == model.model_fields[i]
               nested == get_nested_model(fld.annotation)
               meta == get_field_metadata(model, fld.name, reg)
           IN  IF ~IsNone(nested) THEN Dispatched(nested, reg)
               ELSE IF ~IsNone(meta) THEN {meta}
               ELSE {}
           : i \in 1..Len(model.model_fields)}

\* C10: an endpoint for which validate_specs reports no error has no
\* FromInput / DateRangeFrom / WhenInput link among those the resolver
\* dispatches on, at any depth, that refers to a name missing from the input
\* schema.
C10_ValidationCoversResolution ==
    Validated =>
        \A k \in Checked :
            ErrorsOf(k) = {} =>
                \A meta \in Dispatched(OutputOf(k), registry) :
                    \A j \in 1..Len(InputRefs(meta)) :
                        InputRefs(meta)[j] \in FieldNames(specs[k].input_model)

DuplicateError(method, path) == [uses |-> "Duplicate", method |-> method, path |-> path]

RECURSIVE DuplicateScan(_, _, _, _, _)
\* the loops of get_duplicate_endpoint_errors from method j of spec i on
DuplicateScan(ss, i, j, seen, errs) ==
    IF i > Len(ss) THEN errs
    ELSE IF j > Len(ss[i].methods) THEN DuplicateScan(ss, i + 1, 1, seen, errs)
    ELSE LET method == ss[i].methods[j]
             key == <<ss[i].path, method>>
             method_upper == Upper(IF method = "" THEN "GET" ELSE method)
         IN  DuplicateScan(ss, i, j + 1, seen \cup {key},
                           IF key \in seen
                           THEN Append(errs, DuplicateError(method_upper, ss[i].path))
                           ELSE errs)

\* a scan whose keys are the paths alone
get_duplicate_endpoint_errors_by_path(ss) ==
    LET RECURSIVE scan(_, _, _)
        scan(k, seen, errs) ==
            IF k > Len(ss) THEN errs
            ELSE scan(k + 1, seen \cup {ss[k].path},
                      IF ss[k].path \in seen
                      THEN Append(errs, DuplicateError(Upper(ss[k].methods[1]), ss[k].path))
                      ELSE errs)
    IN  scan(1, {}, <<>>)

\* validation.get_duplicate_endpoint_errors
get_duplicate_endpoint_errors(ss) == DuplicateScan(ss, 1, 1, {}, <<>>)

HttpMethods == {"GET", "POST", "PUT", "PATCH", "DELETE"}

\* what as_fastapi ends with: the exception raised, or the routes of the app
Raises(message, method, path, link_errors) ==
    [exc |-> "ValueError", message |-> message, method |-> method, path |-> path,
     link_errors |-> link_errors, routes |-> <<>>]
App(routes) ==
    [exc |-> "", message |-> "", method |-> "", path |-> "", link_errors |-> <<>>,
     routes |-> routes]

RECURSIVE RouteScan(_, _, _, _, _)
\* the loops of as_fastapi over the specs and their methods (lines 455-474)
RouteScan(ss, i, j, seen, routes) ==
    IF i > Len(ss) THEN App(routes)
    ELSE IF j > Len(ss[i].methods) THEN RouteScan(ss, i + 1, 1, seen, routes)
    ELSE LET method == ss[i].methods[j]
             key == <<ss[i].path, method>>
         IN  IF key \in seen THEN Raises("Duplicate", method, ss[i].path, <<>>)
             ELSE RouteScan(ss, i, j + 1, seen \cup {key},
                            IF method \in HttpMethods
                            THEN Append(routes, [path |-> ss[i].path, method |-> method])
                            ELSE routes)

\* SemblanceAPI.as_fastapi
as_fastapi(ss, validate_links, reg) ==
    Only({IF link_errors # <<>> THEN Raises("Link validation failed", "", "", link_errors)
          ELSE RouteScan(ss, 1, 1, {}, <<>>)
          : link_errors \in {IF validate_links THEN validate_specs(ss, reg) ELSE <<>>}})

\* errors = get_duplicate_endpoint_errors(specs)
GetDuplicateErrors ==
    /\ call.op = "none"
    /\ errors' = get_duplicate_endpoint_errors(specs)
    /\ call' = [op |-> "duplicates"]
    /\ UNCHANGED <<services, registry, grand, frand, overrides, rngs, resolved, built, others, specs>>

\* app = api.as_fastapi() on an API made with the given validate_links
AsFastapi(validate_links) ==
    /\ call.op = "none"
    /\ \E r \in {as_fastapi(specs, validate_links, registry)} :
           /\ call' = [op |-> "as_fastapi", validate_links |-> validate_links, exc |-> r.exc,
                       message |-> r.message, method |-> r.method, path |-> r.path,
                       routes |-> r.routes]
           /\ errors' = r.link_errors
    /\ UNCHANGED <<services, registry, grand, frand, overrides, rngs, resolved, built, others, specs>>

\* endpoints as the decorators api.get / api.post register them
AppSpecs ==
    {EndpointSpec(p, m, Query, Plain(Model("User", <<Fld("name", Str, <<FromInput(f)>>)>>))) :
        p \in {"/users", "/items"}, m \in {"GET", "POST"}, f \in {"a", "typo"}}

NextApp ==
    \/ \E spec \in AppSpecs : Register(spec)
    \/ GetDuplicateErrors
    \/ \E validate_links \in BOOLEAN : AsFastapi(validate_links)

SpecApp == Init /\ [][NextApp]_vars

\* the registrations whose (path, method) an earlier registration has
Repeats ==
    {k \in 1..Len(specs) :
        \E j \in 1..(k - 1) : specs[j].path = specs[k].path /\ specs[j].methods = specs[k].methods}
\* the n-th of them in registration order
NthRepeat(n) == CHOOSE k \in Repeats : Cardinality({j \in Repeats : j <= k}) = n
FirstRepeat == NthRepeat(1)
ReportsRepeats ==
    /\ Len(errors) = Cardinality(Repeats)
    /\ \A n \in 1..Len(errors) :
           errors[n] = DuplicateError(specs[NthRepeat(n)].methods[1], specs[NthRepeat(n)].path)

\* C15 as stated: get_duplicate_endpoint_errors returns one error for each
\* registration that repeats an earlier (path, method), in registration order,
\* and none for any other; whenever there is such a repeat, as_fastapi raises
\* the ValueError "Duplicate <METHOD> endpoint ..." instead of returning an app.
C15_DuplicateAlwaysNamed ==
    /\ call.op = "duplicates" => ReportsRepeats
    /\ (call.op = "as_fastapi" /\ Repeats # {}) =>
           /\ call.exc = "ValueError" /\ call.message = "Duplicate"
           /\ call.method = specs[FirstRepeat].methods[1]
           /\ call.path = specs[FirstRepeat].path

\* C15 amended: get_duplicate_endpoint_errors returns one error for each
\* registration that repeats an earlier (path, method), in registration order,
\* and none for any other; as_fastapi raises ValueError whenever there is a
\* repeat: "Link validation failed" when link validation is enabled and finds
\* errors, and otherwise "Duplicate <METHOD> endpoint ..." naming the first
\* repeat; without repeats and link errors it returns an app with one route
\* per registration.
C15_DuplicatesRejected ==
    /\ call.op = "duplicates" => ReportsRepeats
    /\ call.op = "as_fastapi" =>
           IF call.validate_links /\ validate_specs(specs, registry) # <<>>
           THEN call.exc = "ValueError" /\ call.message = "Link validation failed"
           ELSE IF Repeats # {}
           THEN /\ call.exc = "ValueError" /\ call.message = "Duplicate"
                /\ call.method = specs[FirstRepeat].methods[1]
                /\ call.path = specs[FirstRepeat].path
           ELSE /\ call.exc = ""
                /\ call.routes = [k \in 1..Len(specs) |->
                                     [path |-> specs[k].path, method |-> specs[k].methods[1]]]

\* three registrations, the third repeating the first, rejected as a duplicate
\* although link validation is enabled
C15_Witness ==
    /\ call.op = "as_fastapi" /\ call.validate_links
    /\ Len(specs) = 3 /\ Repeats = {3}
    /\ specs[2].path = specs[1].path
    /\ call.message = "Duplicate" /\ call.method = specs[1].methods[1]

(***************************************************************************)
(* build_response: the output annotation decides what is built             *)
(***************************************************************************)
\* PaginatedResponse[t]
PaginatedOf(t) == [origin |-> "PaginatedResponse", args |-> <<t>>]

\* factory._get_paginated_inner
get_paginated_inner(annotation) ==
    IF annotation.origin = "PaginatedResponse" /\ IsModel(annotation.args[1])
    THEN annotation.args[1]
    ELSE NoneV

\* a float: finite ones are counted in halves (3 is 1.5), inf and nan are named
FloatV(halves) == [kind |-> "float", n |-> halves, s |-> "finite"]
Inf == [kind |-> "float", n |-> 0, s |-> "inf"]
NaN == [kind |-> "float", n |-> 0, s |-> "nan"]

\* the integers a string of the inputs can spell
Numerals == (0 - 2 * MaxCount)..(2 * MaxCount)

\* int(val): [exc, n]. A float is truncated towards zero, inf raises
\* OverflowError and nan ValueError; a string must spell an integer
int(val) ==
    IF val.kind \in {"int", "bool"} THEN [exc |-> "", n |-> val.n]
    ELSE IF val.kind = "float"
    THEN IF val.s = "inf" THEN [exc |-> "OverflowError", n |-> 0]
         ELSE IF val.s = "nan" THEN [exc |-> "ValueError", n |-> 0]
         ELSE [exc |-> "", n |-> IF val.n >= 0 THEN val.n \div 2 ELSE 0 - ((0 - val.n) \div 2)]
    ELSE IF val.kind = "str"
    THEN IF \E i \in Numerals : ToString(i) = val.s
         THEN [exc |-> "", n |-> CHOOSE i \in Numerals : ToString(i) = val.s]
         ELSE [exc |-> "ValueError", n |-> 0]
    ELSE [exc |-> "TypeError", n |-> 0]

\* try: int(input_data.get(key, default)) except (TypeError, ValueError): default
IntOr(input_data, key, default) ==
    Only({IF r.exc \in {"TypeError", "ValueError"} THEN [exc |-> "", n |-> default] ELSE r
          : r \in {int(IF key \in DOMAIN input_data THEN input_data[key] ELSE IntV(default))}})

Max(a, b) == IF a >= b THEN a ELSE b
Min(a, b) == IF a <= b THEN a ELSE b
NoPage == [total |-> 0, limit |-> 0, offset |-> 0]

\* what build_response ends with
Response(b, message, page) ==
    [exc |-> b.exc, message |-> message, overrides |-> b.overrides, instances |-> b.instances,
     st |-> b.st, page |-> page]
InvalidOutputType(st) ==
    [exc |-> "TypeError", message |-> "Invalid output type", overrides |-> <<>>,
     instances |-> <<>>, st |-> st, page |-> NoPage]

\* resolve_overrides reads output_model.model_fields: a class without it has the
\* generator made and then AttributeError raised
ListFor(model, input_data, count, seed, filter_by, st, reg) ==
    IF IsModel(model) THEN build_list(model, input_data, count, seed, filter_by, st, reg)
    ELSE [exc |-> "AttributeError", overrides |-> <<>>, instances |-> <<>>,
          st |-> NewRng(seed, st).st]

\* an exception that leaves build_response before anything is built
RaisedEarly(exc, st) ==
    [exc |-> exc, message |-> "", overrides |-> <<>>, instances |-> <<>>, st |-> st,
     page |-> NoPage]

\* the PaginatedResponse branch once limit and offset are clamped
Paginated(inner, input_data, limit, offset, seed, st, reg) ==
    Only({IF all.exc # "" THEN Response(all, "", NoPage)
          ELSE Only({Response([all EXCEPT !.instances = items], "",
                              [total |-> offset + Len(items), limit |-> limit,
                               offset |-> offset])
                     : items \in {SubSeq(all.instances, offset + 1,
                                         Min(offset + limit, Len(all.instances)))}})
          : all \in {build_list(inner, input_data, offset + limit, seed, "", st, reg)}})

\* factory.build_response
build_response(output_annotation, input_data, list_count, seed, filter_by, st, reg) ==
    Only({IF inner # NoneV
          THEN Only({IF lim.exc # "" THEN RaisedEarly(lim.exc, st)
                     ELSE IF off.exc # "" THEN RaisedEarly(off.exc, st)
                     ELSE Paginated(inner, input_data, Max(1, lim.n), Max(0, off.n), seed, st,
                                    reg)
                     : lim \in {IntOr(input_data, "limit", 10)},
                       off \in {IntOr(input_data, "offset", 0)}})
          ELSE Only({IF model = NoneV THEN InvalidOutputType(st)
                     ELSE IF output_annotation.origin = "list"
                     THEN Only({Response(l, "", NoPage)
                                : l \in {ListFor(model, input_data, list_count, seed,
                                                 filter_by, st, reg)}})
                     ELSE Only({Response(o, "", NoPage)
                                : o \in {build_one(model, input_data, seed, st, reg)}})
                     : model \in {get_output_model_for_type(output_annotation)}})
          : inner \in {get_paginated_inner(output_annotation)}})

\* a call build_response(output_annotation, input_model, input_instance, list_count, seed)
BuildResponse(output_annotation, input_data, list_count, seed) ==
    /\ call.op = "none"
    /\ \E b \in {build_response(output_annotation, input_data, list_count, seed, "", FreshSt,
                                registry)} :
           /\ call' = [op |-> "build_response", output_annotation |-> output_annotation,
                       input_data |-> input_data, seed |-> seed, count |-> list_count,
                       exc |-> b.exc, message |-> b.message, page |-> b.page]
           /\ overrides' = b.overrides
           /\ rngs' = b.st.rngs
           /\ grand' = b.st.grand
           /\ frand' = b.st.frand
           /\ built' = b.instances
    /\ UNCHANGED <<services, registry, resolved, others, specs, errors>>

User == Model("User", <<Fld("name", Str, <<FromInput("a")>>), Fld("tag", Str, <<>>)>>)
Integer == Plain(Builtin("int"))

OutputAnnotations ==
    {Plain(User), ListOf(User), PaginatedOf(User),
     Plain(Builtin("list")), Str, Integer, ListOf(Builtin("str")), ListOf(Builtin("int"))}

ResponseInputs ==
    {[x \in {"a", "limit", "offset"} |->
         IF x = "a" THEN va ELSE IF x = "limit" THEN vl ELSE vo] :
        va \in {StrV("alice"), NoneV},
        vl \in {IntV(0), IntV(1), IntV(2), NoneV, StrV("not-a-number"), StrV("2"), FloatV(3),
                NaN, Inf},
        vo \in {IntV(-1), IntV(0), IntV(1), StrV("invalid"), StrV("1"), FloatV(-3)}}

NextResponse ==
    \E output_annotation \in OutputAnnotations, input_data \in ResponseInputs,
          list_count \in 1..MaxCount, seed \in Seeds :
          BuildResponse(output_annotation, input_data, list_count, seed)

SpecResponse == Init /\ [][NextResponse]_vars

\* the annotations build_response is specified to build from
ValidOutput(annotation) ==
    \/ annotation.origin = "" /\ IsModel(annotation.args[1])
    \/ annotation.origin \in {"list", "PaginatedResponse"} /\ IsModel(annotation.args[1])

\* C16: for every output annotation that is not a model, list[model] or
\* PaginatedResponse[model] (bare list, str, int, list[str], list[int]),
\* build_response raises TypeError "Invalid output type ..." and has resolved
\* and built nothing and made no generator.
C16_InvalidOutputTypeRaises ==
    (call.op = "build_response" /\ ~ValidOutput(call.output_annotation)) =>
        /\ call.exc = "TypeError" /\ call.message = "Invalid output type"
        /\ overrides = <<>> /\ built = <<>> /\ rngs = <<>>

\* what the input gives for a pagination key: its value as an integer when it
\* is int-convertible, the default otherwise
PageValue(input_data, key, default) ==
    IF key \in DOMAIN input_data /\ int(input_data[key]).exc = ""
    THEN int(input_data[key]).n
    ELSE default

\* C26: for a PaginatedResponse[Model] output, limit and offset are read from
\* the input, fall back to 10 and 0 when not int-convertible and are clamped
\* to limit >= 1 and offset >= 0; the response echoes them, items has exactly
\* limit elements and total == offset + len(items)
C26_PaginationEchoesClampedValues ==
    (call.op = "build_response" /\ call.output_annotation = PaginatedOf(User)) =>
        /\ call.exc = ""
        /\ call.page.limit = Max(1, PageValue(call.input_data, "limit", 10))
        /\ call.page.offset = Max(0, PageValue(call.input_data, "offset", 0))
        /\ Len(built) = call.page.limit
        /\ call.page.total = call.page.offset + Len(built)

(***************************************************************************)
(* Request-bound fields: FromHeader and FromCookie                         *)
(***************************************************************************)
\* a request with the given headers and cookies
RequestWith(headers, cookies) == [kind |-> "request", headers |-> headers, cookies |-> cookies]

Requests ==
    {NoneV}
    \cup {RequestWith(h, c) :
            h \in {<<>>, [x \in {"X-Id"} |-> StrV("h1")], [x \in {"X-Id"} |-> StrV("")],
                   [x \in {"X-Id", "X-Trace"} |-> StrV("h2")]},
            c \in {<<>>, [x \in {"sid"} |-> StrV("c1")]}}

Session(header, cookie) ==
    Model("Session", <<Fld("sid", Str, <<FromCookie(cookie)>>),
                       Fld("trace", Str, <<FromHeader(header)>>)>>)

RequestModels ==
    {Model("Out", <<Fld("rid", Str, <<FromHeader(h)>>),
                    Fld("session", Plain(Session(nh, "sid")), <<>>),
                    Fld("user", Str, <<FromCookie(c)>>),
                    Fld("name", Str, <<FromInput("a")>>)>>) :
        h \in {"X-Id", "X-Trace"}, nh \in {"X-Id", "X-Trace"}, c \in {"sid", "uid"}}

RequestInputs ==
    {[x \in {"a", "b", "options"} |-> IF x = "a" THEN va ELSE IF x = "b" THEN NoneV ELSE Options] :
        va \in {NoneV, StrV("alice")}}

NextRequest ==
    \/ \E output_model \in RequestModels, input_data \in RequestInputs, seed \in Seeds,
          request \in Requests :
          ResolveOverrides(output_model, input_data, seed, request)
    \/ EvaluateOverrides

SpecRequest == Init /\ [][NextRequest]_vars

\* request.headers.get(name) / request.cookies.get(name)
RequestLookup(meta, request) ==
    IF meta.kind = "FromHeader" THEN DictGet(request.headers, meta.name)
    ELSE DictGet(request.cookies, meta.name)

RECURSIVE RequestBound(_, _, _)
\* in the override map ovr of `model` and in those of its nested schemas, a field
\* linked to a header or cookie is overridden exactly when there is a request
\* whose lookup is not None, and then by the value looked up
RequestBound(model, ovr, request) ==
    \A i \in 1..Len(model.model_fields) :
        LET fld == model.model_fields[i]
            sub == get_nested_model(fld.annotation)
        IN  IF ~IsNone(sub)
            THEN /\ fld.name \in Keys(ovr)
                 /\ RequestBound(sub, EntryOf(ovr, fld.name).items["_overrides"], request)
            ELSE \A j \in 1..Len(fld.metadata) :
                     fld.metadata[j].kind \in {"FromHeader", "FromCookie"} =>
                         IF IsNone(request) \/ IsNone(RequestLookup(fld.metadata[j], request))
                         THEN fld.name \notin Keys(ovr)
                         ELSE /\ fld.name \in Keys(ovr)
                              /\ EntryOf(ovr, fld.name) = RequestLookup(fld.metadata[j], request)

\* C17: resolving a schema with FromHeader / FromCookie fields raises nothing,
\* with or without a request; without a request no such field is overridden;
\* with one, the field is overridden exactly when the header or cookie lookup
\* is not None, by the value looked up; the same holds, with the same request,
\* inside nested schemas; evaluating passes these values on unchanged.
C17_RequestBoundFields ==
    (Resolving /\ UsesRequest(call.output_model)) =>
        /\ call.exc = ""
        /\ RequestBound(call.output_model, overrides, call.request)
        /\ (call.op = "evaluate" /\ resolved.exc = "") =>
               \A k \in {"rid", "user"} :
                   k \in Keys(overrides) =>
                       /\ k \in DOMAIN resolved.result
                       /\ resolved.result[k] = EntryOf(overrides, k)

\* a request whose X-Id header is the empty string and that has no cookies:
\* the header is bound at the top level, the nested schema's X-Trace is not
C17_Witness ==
    /\ call.op = "evaluate" /\ resolved.exc = ""
    /\ ~IsNone(call.request)
    /\ "rid" \in Keys(overrides) /\ EntryOf(overrides, "rid") = StrV("")
    /\ "user" \notin Keys(overrides)
    /\ Keys(EntryOf(overrides, "session").items["_overrides"]) = {}

(***************************************************************************)
(* rate_limit.RateLimiter: check_and_record run by concurrent threads      *)
(***************************************************************************)
\* the timestamps t of ts_list with now - t < 1.0
Recent(ts_list, now) == SelectSeq(ts_list, LAMBDA t : now - t < TicksPerSecond)

RateVars == <<timestamps, lock, threads, clock, admitted, calls>>
EngineVars ==
    <<registry, grand, frand, call, overrides, rngs, resolved, built, others, specs, errors>>

\* thread t calls check_and_record(path, method, limit): the lines before the lock
CheckAndRecord(t, key) ==
    /\ threads[t].pc = "idle"
    /\ calls < MaxCalls
    /\ calls' = calls + 1
    /\ threads' = [threads EXCEPT ![t] =
                      IF RateLimit(key) <= 0
                      THEN [pc |-> "idle", key |-> key, limit |-> RateLimit(key), now |-> 0,
                            result |-> "True"]
                      ELSE [pc |-> "lock", key |-> key, limit |-> RateLimit(key),
                            now |-> clock, result |-> ""]]
    /\ UNCHANGED <<EngineVars, timestamps, lock, clock, admitted, store, response>>

\* with self._lock: blocks until the lock is free
Acquire(t) ==
    /\ threads[t].pc = "lock"
    /\ lock = NoThread
    /\ lock' = t
    /\ threads' = [threads EXCEPT ![t].pc = "prune"]
    /\ UNCHANGED <<EngineVars, timestamps, clock, admitted, calls, store, response>>

\* ts_list[:] = [t for t in ts_list if now - t < 1.0]
Prune(t) ==
    /\ threads[t].pc = "prune"
    /\ timestamps' = [timestamps EXCEPT ![threads[t].key] = Recent(@, threads[t].now)]
    /\ threads' = [threads EXCEPT ![t].pc = "compare"]
    /\ UNCHANGED <<EngineVars, lock, clock, admitted, calls, store, response>>

\* a comparison that records the call before denying it
Compare_recording(t) ==
    /\ threads[t].pc = "compare"
    /\ IF Len(timestamps[threads[t].key]) >= threads[t].limit
       THEN /\ threads' = [threads EXCEPT ![t].pc = "idle", ![t].result = "False"]
            /\ timestamps' = [timestamps EXCEPT ![threads[t].key] = Append(@, threads[t].now)]
            /\ lock' = NoThread
       ELSE /\ threads' = [threads EXCEPT ![t].pc = "append"]
            /\ UNCHANGED <<timestamps, lock>>
    /\ UNCHANGED <<EngineVars, clock, admitted, calls, store, response>>

\* if len(ts_list) >= limit: return False (leaving the with block frees the lock)
Compare(t) ==
    /\ threads[t].pc = "compare"
    /\ IF Len(timestamps[threads[t].key]) >= threads[t].limit
       THEN /\ threads' = [threads EXCEPT ![t].pc = "idle", ![t].result = "False"]
            /\ lock' = NoThread
       ELSE /\ threads' = [threads EXCEPT ![t].pc = "append"]
            /\ UNCHANGED lock
    /\ UNCHANGED <<EngineVars, timestamps, clock, admitted, calls, store, response>>

\* ts_list.append(now); the with block ends; return True
AppendNow(t) ==
    /\ threads[t].pc = "append"
    /\ timestamps' = [timestamps EXCEPT ![threads[t].key] = Append(@, threads[t].now)]
    /\ admitted' = [admitted EXCEPT ![threads[t].key] = Append(@, threads[t].now)]
    /\ threads' = [threads EXCEPT ![t].pc = "idle", ![t].result = "True"]
    /\ lock' = NoThread
    /\ UNCHANGED <<EngineVars, clock, calls, store, response>>

\* time passes
Tick ==
    /\ clock < MaxClock
    /\ clock' = clock + 1
    /\ UNCHANGED <<EngineVars, timestamps, lock, threads, admitted, calls, store, response>>

NextRateLimit ==
    \/ \E t \in Threads, key \in RateKeys : CheckAndRecord(t, key)
    \/ \E t \in Threads : Acquire(t)
    \/ \E t \in Threads : Prune(t)
    \/ \E t \in Threads : Compare(t)
    \/ \E t \in Threads : AppendNow(t)
    \/ Tick

SpecRateLimit == Init /\ [][NextRateLimit]_vars

\* the number of calls on `key` that returned True with a time in [w, w + 1 second)
AdmittedIn(key, w) ==
    Cardinality({i \in DOMAIN admitted[key] :
                    w <= admitted[key][i] /\ admitted[key][i] < w + TicksPerSecond})
\* the threads inside the with block
InLock == {t \in Threads : threads[t].pc \in {"prune", "compare", "append"}}

\* C18: for every key with a positive limit N, under every interleaving: at
\* most one thread is inside the locked block, and it holds the lock; the
\* stored list of the key never holds more than N timestamps, all of them of
\* admitted calls on that key; and in every 1-second window at most N calls
\* that returned True have their timestamp.
C18_WindowNeverExceeded ==
    /\ Cardinality(InLock) <= 1
    /\ \A t \in InLock : lock = t
    /\ \A key \in RateKeys :
           RateLimit(key) > 0 =>
               /\ Len(timestamps[key]) <= RateLimit(key)
               /\ \A i \in DOMAIN timestamps[key] :
                      \E j \in DOMAIN admitted[key] : admitted[key][j] = timestamps[key][i]
               /\ \A w \in 0..MaxClock : AdmittedIn(key, w) <= RateLimit(key)

\* thread t leaves the comparison in this step
Compares(t) == threads[t].pc = "compare" /\ threads'[t].pc # "compare"
\* thread t returns from check_and_record in this step
Returns_(t, result) ==
    threads[t] # threads'[t] /\ threads'[t].pc = "idle" /\ threads'[t].result = result

\* C19: a call that returns False records no timestamp; for a limit N >= 1, a
\* call whose time is at least 1 second after every admitted call of its key
\* is not denied (it goes on to record its time and, doing so, returns True),
\* however many calls were denied in between; with limit <= 0 the call
\* returns True at once and records nothing.
C19_DeniedCallsRecordNothing ==
    [][\A t \in Threads :
          /\ Returns_(t, "False") => timestamps' = timestamps /\ admitted' = admitted
          /\ (/\ Compares(t)
              /\ \A i \in DOMAIN admitted[threads[t].key] :
                     threads[t].now - admitted[threads[t].key][i] >= TicksPerSecond)
             => threads'[t].pc = "append"
          /\ threads[t].pc = "append" =>
                 (Returns_(t, "True") \/ threads'[t] = threads[t])
          /\ (threads[t].pc = "idle" /\ threads'[t] # threads[t] /\ threads'[t].limit <= 0) =>
                 /\ Returns_(t, "True")
                 /\ timestamps' = timestamps /\ admitted' = admitted]_vars

\* on the limit-1 endpoint, t1 was denied half a second after the admitted
\* call, and t2 is admitted one second after it
C19_Witness ==
    /\ admitted[<<"/users", "POST">>] = <<0, TicksPerSecond>>
    /\ threads["t1"] = [pc |-> "idle", key |-> <<"/users", "POST">>, limit |-> 1, now |-> 1,
                        result |-> "False"]
    /\ threads["t2"].pc = "idle" /\ threads["t2"].result = "True"
    /\ threads["t2"].key = <<"/users", "POST">> /\ threads["t2"].now = TicksPerSecond
    /\ timestamps[<<"/users", "POST">>] = <<TicksPerSecond>>

(***************************************************************************)
(* state.StatefulStore and the stateful POST / GET handlers                *)
(***************************************************************************)
StoreVars == <<store, response>>

\* str(uuid.uuid4()): the values it can give, enough of them for a full store
\* (n tells them apart)
Uuids == {[kind |-> "str", n |-> k, s |-> "uuid4"] : k \in 1..(2 * MaxItems)}
\* the ids of the stored instances
StoredIds(st_) ==
    UNION {{st_[path][i].fields["id"] :
               i \in {j \in 1..Len(st_[path]) : "id" \in DOMAIN st_[path][j].fields}} :
           path \in DOMAIN st_}

\* data.get("id") in (None, "")
IdMissing(instance) ==
    PyEq(instance.fields["id"], NoneV) \/ PyEq(instance.fields["id"], StrV(""))

\* the instance StatefulStore.add stores and returns, uuid being what uuid4 gave
Identified(instance, uuid) ==
    IF "id" \in DOMAIN instance.fields /\ IdMissing(instance)
    THEN [instance EXCEPT !.fields["id"] = uuid]
    ELSE instance

\* StatefulStore.add: the store after it
add(st_, path, instance, uuid) ==
    [p \in DOMAIN st_ \cup {path} |->
        IF p = path
        THEN Append(IF path \in DOMAIN st_ THEN st_[path] ELSE <<>>, Identified(instance, uuid))
        ELSE st_[p]]

\* StatefulStore.get_all: list(self._store.get(path, [])), a new list
get_all(st_, path) ==
    [items |-> IF path \in DOMAIN st_ THEN st_[path] ELSE <<>>, alias |-> FALSE]

Stored(path) == IF path \in DOMAIN store THEN Len(store[path]) ELSE 0

\* store.add(path, instance) called directly
StoreAdd(path, instance) ==
    /\ Stored(path) < MaxItems
    /\ \E uuid \in Uuids \ StoredIds(store) :
           /\ store' = add(store, path, instance, uuid)
           /\ response' = [op |-> "add", path |-> path, status |-> 0, exc |-> "",
                           alias |-> FALSE, given |-> <<instance>>,
                           body |-> <<Identified(instance, uuid)>>]
    /\ UNCHANGED <<EngineVars, RateVars>>

\* store.get_all(path) called directly
StoreGetAll(path) ==
    /\ \E r \in {get_all(store, path)} :
           response' = [op |-> "get_all", path |-> path, status |-> 0, exc |-> "",
                        alias |-> r.alias, given |-> <<>>, body |-> r.items]
    /\ UNCHANGED <<EngineVars, RateVars, store>>

\* the caller empties the list it got from get_all
ClearReturned ==
    /\ response.op = "get_all"
    /\ response.body # <<>>
    /\ response' = [response EXCEPT !.body = <<>>, !.op = "cleared"]
    /\ IF response.alias
       THEN store' = [store EXCEPT ![response.path] = <<>>]
       ELSE UNCHANGED store
    /\ UNCHANGED <<EngineVars, RateVars>>

\* the parameters factory.build_response takes
BuildResponseParameters ==
    {"output_annotation", "input_model", "input_instance", "list_count", "seed", "filter_by"}

\* build_response(output_annotation, input_model, merged, list_count=count, seed=seed,
\* filter_by=filter_by, request=request) as the handlers call it
HandlerResponse(output_annotation, input_data, count, seed, filter_by, st, reg) ==
    IF "request" \notin BuildResponseParameters
    THEN [exc |-> "TypeError", message |-> "unexpected keyword argument 'request'",
          overrides |-> <<>>, instances |-> <<>>, st |-> st, page |-> NoPage]
    ELSE build_response(output_annotation, input_data, count, seed, filter_by, st, reg)

\* the stored model of the collection and its instances
StoredItem ==
    Model("UserWithId", <<Fld("id", Str, <<>>), Fld("name", Str, <<FromInput("a")>>)>>)
Unidentified == Model("ModelNoId", <<Fld("name", Str, <<FromInput("a")>>)>>)
StoreInstances ==
    {Instance(StoredItem, [x \in {"id", "name"} |-> IF x = "id" THEN id ELSE StrV(name)]) :
        id \in {NoneV, StrV(""), StrV("custom-123")}, name \in {"alice", "bob"}}
    \cup {Instance(Unidentified, [x \in {"name"} |-> StrV("bob")])}
StorePaths == {"/users", "/items"}
Bodies == {[x \in {"a"} |-> StrV(name)] : name \in {"alice", "bob"}}

\* a POST request on a stateful API whose endpoint returns one UserWithId
\* (no rate limit, no simulated error, no latency); seed is the API's seed
Post(path, input_data, seed) ==
    /\ Stored(path) < MaxItems
    /\ \E b \in {HandlerResponse(Plain(StoredItem), input_data, 5, seed, "", FreshSt,
                                 registry)} :
           IF b.exc # ""
           THEN /\ response' = [op |-> "POST", path |-> path, status |-> 500, exc |-> b.exc,
                                alias |-> FALSE, given |-> <<>>, body |-> <<>>]
                /\ UNCHANGED <<store, grand, frand>>
           ELSE \E uuid \in Uuids \ StoredIds(store) :
                    /\ store' = add(store, path, b.instances[1], uuid)
                    /\ response' = [op |-> "POST", path |-> path, status |-> 200, exc |-> "",
                                    alias |-> FALSE, given |-> <<>>,
                                    body |-> <<Identified(b.instances[1], uuid)>>]
                    /\ grand' = b.st.grand
                    /\ frand' = b.st.frand
    /\ UNCHANGED <<registry, call, overrides, rngs, resolved, built, others, specs, errors,
                   RateVars>>

\* a GET request on the list endpoint of a stateful API (output list[UserWithId])
GetList(path) ==
    /\ \E r \in {get_all(store, path)} :
           response' = [op |-> "GET", path |-> path, status |-> 200, exc |-> "",
                        alias |-> r.alias, given |-> <<>>, body |-> r.items]
    /\ UNCHANGED <<EngineVars, RateVars, store>>

NextStore ==
    \/ \E path \in StorePaths, instance \in StoreInstances : StoreAdd(path, instance)
    \/ \E path \in StorePaths : StoreGetAll(path)
    \/ ClearReturned
    \/ \E path \in StorePaths, input_data \in Bodies, seed \in Seeds :
          Post(path, input_data, seed)
    \/ \E path \in StorePaths : GetList(path)

SpecStore == Init /\ [][NextStore]_vars

\* C20: in stateful mode a single-model POST with a valid body succeeds and
\* its instance is stored last in the collection of its path; a GET on the
\* list endpoint returns exactly the stored instances of the path, in order;
\* every stored instance with an id field has a non-empty id, an id that was
\* set being kept; and emptying the list get_all returned leaves the store as
\* it was.
C20_StoredInstancesServed ==
    /\ response.op = "POST" =>
           /\ response.status = 200
           /\ Stored(response.path) > 0
           /\ store[response.path][Stored(response.path)] = response.body[1]
    /\ response.op = "GET" =>
           /\ response.status = 200
           /\ response.body = (IF response.path \in DOMAIN store THEN store[response.path]
                               ELSE <<>>)
    /\ \A path \in DOMAIN store : \A i \in 1..Len(store[path]) :
           "id" \in DOMAIN store[path][i].fields => ~IdMissing(store[path][i])
    /\ response.op = "add" =>
           /\ store[response.path][Stored(response.path)] = response.body[1]
           /\ response.body[1].fields["name"] = response.given[1].fields["name"]
           /\ ("id" \in DOMAIN response.given[1].fields /\ ~IdMissing(response.given[1])) =>
                  response.body = response.given
    /\ response.op = "cleared" => Stored(response.path) > 0

(***************************************************************************)
(* build_list: one resolved map, one evaluation per item                    *)
(***************************************************************************)
Flat(ovr) == \A i \in 1..Len(ovr) : ~IsNestedBundle(ovr[i].value)

\* the state in which generator r stands at x
StandingAt(st, x) == [st EXCEPT !.grand = x, !.rngs = [j \in DOMAIN @ |-> x]]

\* the value thunk i of the map returns in the k-th evaluation after state st, when
\* every evaluation invokes each thunk once, in map order
KthDraw(ovr, i, k, st) ==
    LET r == ovr[i].value.r
        m == Cardinality(Sampling(ovr, r))
        before == Cardinality({j \in Sampling(ovr, r) : j < i})
    IN  call_closure(ovr[i].value,
                     StandingAt(st, RngSteps((k - 1) * m + before, RngState(r, st)))).value

\* C28: build_list resolves the override map once and evaluates that same map
\* once per item; an evaluation leaves the map as it was and invokes each
\* thunk exactly once, so every list element gets its own draw from the thunk
\* and the map after the build is the map that was resolved
C28_OneDrawPerItem ==
    [][(call' # call /\ call'.op = "build_list" /\ call'.exc = "") =>
          \A r \in {resolve_overrides(call'.output_model, call'.input_data, call'.seed, NoneV,
                                      FreshSt, registry)} :
              /\ overrides' = r.overrides
              /\ Len(built') = call'.attempts
              /\ Flat(r.overrides) =>
                    /\ grand' = RngSteps(call'.attempts * Cardinality(Sampling(r.overrides, 0)),
                                         r.st.grand)
                    /\ \A g \in 1..Len(r.st.rngs) :
                           rngs'[g] = RngSteps(call'.attempts
                                                   * Cardinality(Sampling(r.overrides, g)),
                                               r.st.rngs[g])
                    /\ \A k \in 1..Len(built'), i \in 1..Len(r.overrides) :
                           IsCallable(r.overrides[i].value) =>
                               built'[k].fields[r.overrides[i].key] =
                                   KthDraw(r.overrides, i, k, r.st)]_vars

\* a list of two items built from a map with a sampling thunk: the two items
\* carry different draws and the thunk is still in the map
C28_Witness ==
    /\ call.op = "build_list" /\ call.exc = "" /\ Len(built) = 2
    /\ \E i \in 1..Len(overrides) :
          /\ IsCallable(overrides[i].value)
          /\ overrides[i].value.e.n > overrides[i].value.s.n
          /\ built[1].fields[overrides[i].key] # built[2].fields[overrides[i].key]

(***************************************************************************)
(* build_list with filter_by                                                *)
(***************************************************************************)
\* the output models: status is copied from the input or generated
FilterModels ==
    {Model("UserWithStatus", <<Fld("name", Str, <<FromInput("a")>>),
                               Fld("status", Str, ls)>>) :
        ls \in {<<FromInput("status")>>, <<>>}}

FilterInputs ==
    {[x \in {"a", "status"} |-> IF x = "a" THEN StrV("alice") ELSE v] :
        v \in {StrV("admin"), StrV("x"), StrV("active"), NoneV}}

\* the attribute filtered by: none, a field of both models, a field of neither
FilterNames == {"", "status", "role"}

NextFilter ==
    \/ \E output_model \in FilterModels, input_data \in FilterInputs, count \in 1..MaxCount,
          seed \in Seeds, filter_by \in FilterNames :
          BuildList(output_model, input_data, count, seed, filter_by)
    \/ OtherFactoryUse
    \/ BuildAgain

SpecFilter == Init /\ [][NextFilter]_vars

\* C27: without filter_by build_list returns exactly count instances; with
\* filter_by it makes at most 5 * count passes, stops at the pass that collects
\* the count-th match, returns at most count instances, and the filter_by
\* attribute of every returned instance equals the input's value; it may
\* return fewer than count, possibly none
C27_FilteredListBounded ==
    (call.op = "build_list" /\ call.exc = "") =>
        IF call.filter_by = ""
        THEN Len(built) = call.count /\ call.attempts = call.count
        ELSE /\ call.attempts <= 5 * call.count
             /\ Len(built) <= call.count
             /\ Len(built) = call.count => call.attempts = call.last
             /\ Len(built) < call.count => call.attempts = 5 * call.count
             /\ \A k \in 1..Len(built) :
                    PyEq(DictGet(built[k].fields, call.filter_by),
                         DictGet(call.input_data, call.filter_by))

\* a filtered build that found count matches only after passes that did not
\* match, and stopped before the 5 * count passes were used up
C27_Witness ==
    /\ call.op = "build_list" /\ call.exc = "" /\ call.filter_by = "status"
    /\ Len(built) = call.count
    /\ call.attempts > call.count
    /\ call.attempts < 5 * call.count

(***************************************************************************)
(* Stateful by-id requests: GET, PUT, PATCH, DELETE on /collection/{param} *)
(***************************************************************************)
\* a path template with what _parse_path_params and _collection_path give for it
Route(path, collection, params) == [path |-> path, collection |-> collection, params |-> params]
parse_path_params(route) == route.params
collection_path(route) == route.collection

\* the index of the first item with getattr(item, id_field, None) == id_value, or 0
IdIndex(items, id_value, id_field) ==
    LET hits == {i \in 1..Len(items) :
                    /\ id_field \in DOMAIN items[i].fields
                    /\ PyEq(items[i].fields[id_field], id_value)}
    IN  IF hits = {} THEN 0 ELSE CHOOSE i \in hits : \A j \in hits : i <= j

ItemsOf(st_, path) == IF path \in DOMAIN st_ THEN st_[path] ELSE <<>>

\* a lookup that ignores the id and returns the first item of the collection
get_by_id_first(st_, collection, id_value, id_field) ==
    IF ItemsOf(st_, collection) = <<>> THEN NoneV ELSE ItemsOf(st_, collection)[1]

\* StatefulStore.get_by_id
get_by_id(st_, collection, id_value, id_field) ==
    Only({IF k = 0 THEN NoneV ELSE ItemsOf(st_, collection)[k]
          : k \in {IdIndex(ItemsOf(st_, collection), id_value, id_field)}})

\* StatefulStore.update: [store, result]
update(st_, collection, id_value, instance, id_field) ==
    Only({IF k = 0 THEN [store |-> st_, result |-> NoneV]
          ELSE [store |-> [st_ EXCEPT ![collection][k] = instance], result |-> instance]
          : k \in {IdIndex(ItemsOf(st_, collection), id_value, id_field)}})

RemoveAt(items, k) == SubSeq(items, 1, k - 1) \o SubSeq(items, k + 1, Len(items))

\* a remove that takes out every matching item
remove_all(st_, collection, id_value, id_field) ==
    IF IdIndex(ItemsOf(st_, collection), id_value, id_field) = 0
    THEN [store |-> st_, result |-> FALSE]
    ELSE [store |-> [st_ EXCEPT ![collection] =
                        SelectSeq(@, LAMBDA item :
                                         ~(/\ id_field \in DOMAIN item.fields
                                           /\ PyEq(item.fields[id_field], id_value)))],
          result |-> TRUE]

\* StatefulStore.remove: [store, result]
remove(st_, collection, id_value, id_field) ==
    Only({IF k = 0 THEN [store |-> st_, result |-> FALSE]
          ELSE [store |-> [st_ EXCEPT ![collection] = RemoveAt(@, k)], result |-> TRUE]
          : k \in {IdIndex(ItemsOf(st_, collection), id_value, id_field)}})

\* StatefulStore.clear; AllPaths stands for None
AllPaths == "*"
clear(st_, path) ==
    IF path = AllPaths THEN NoItems
    ELSE [p \in DOMAIN st_ \ {path} |-> st_[p]]

\* what a by-id handler answers; body holds the returned model, if any
Answer(op, stateful, route, id_value, output, status, exc, body) ==
    [op |-> op, stateful |-> stateful, path |-> collection_path(route),
     id_field |-> IF parse_path_params(route) = <<>> THEN "" ELSE parse_path_params(route)[1],
     id_value |-> id_value, output |-> output, status |-> status, exc |-> exc,
     alias |-> FALSE, given |-> <<>>, body |-> body]

\* the request reaches the by-id branch of its handler: a store, a path
\* parameter and a value for it
ById(stateful, route) == stateful /\ parse_path_params(route) # <<>>

\* the model of the response with data[id_field] = id_value validated again
\* (a key that is no field of the model is ignored)
WithId(instance, id_field, id_value) ==
    IF id_field \in DOMAIN instance.fields
    THEN [instance EXCEPT !.fields[id_field] = id_value]
    ELSE instance

\* api.clear_store(path)
Clear(path) ==
    /\ store # NoItems
    /\ store' = clear(store, path)
    /\ response' = [op |-> "clear", path |-> path, status |-> 0, exc |-> "", alias |-> FALSE,
                    given |-> <<>>, body |-> <<>>]
    /\ UNCHANGED <<EngineVars, RateVars>>

\* a GET request on a single-model endpoint
GetOne(stateful, route, id_value, input_data) ==
    /\ IF ById(stateful, route)
       THEN /\ \E item \in {get_by_id(store, collection_path(route), id_value,
                                      parse_path_params(route)[1])} :
                   response' = IF ~IsNone(item)
                               THEN Answer("GET", stateful, route, id_value, "model", 200, "",
                                           <<item>>)
                               ELSE Answer("GET", stateful, route, id_value, "model", 404,
                                           "HTTPException", <<>>)
            /\ UNCHANGED <<grand, frand>>
       ELSE \E b \in {HandlerResponse(Plain(StoredItem), input_data, 5, NoSeed, "", FreshSt,
                                      registry)} :
                /\ response' = Answer("GET", stateful, route, id_value, "model",
                                      IF b.exc # "" THEN 500 ELSE 200, b.exc, b.instances)
                /\ grand' = b.st.grand
                /\ frand' = b.st.frand
    /\ UNCHANGED <<registry, call, overrides, rngs, resolved, built, others, specs, errors,
                   RateVars, store>>

\* a PATCH request
Patch(stateful, route, id_value, input_data) ==
    /\ IF /\ ById(stateful, route)
          /\ IsNone(get_by_id(store, collection_path(route), id_value,
                              parse_path_params(route)[1]))
       THEN /\ response' = Answer("PATCH", stateful, route, id_value, "model", 404,
                                  "HTTPException", <<>>)
            /\ UNCHANGED <<store, grand, frand>>
       ELSE \E b \in {HandlerResponse(Plain(StoredItem), input_data, 5, NoSeed, "", FreshSt,
                                      registry)} :
                /\ grand' = b.st.grand
                /\ frand' = b.st.frand
                /\ IF b.exc # ""
                   THEN /\ response' = Answer("PATCH", stateful, route, id_value, "model", 500,
                                              b.exc, <<>>)
                        /\ UNCHANGED store
                   ELSE IF ~ById(stateful, route)
                   THEN /\ response' = Answer("PATCH", stateful, route, id_value, "model", 200,
                                              "", b.instances)
                        /\ UNCHANGED store
                   ELSE \E u \in {update(store, collection_path(route), id_value,
                                         WithId(b.instances[1], parse_path_params(route)[1],
                                                id_value),
                                         parse_path_params(route)[1])} :
                            /\ store' = u.store
                            /\ response' =
                                   Answer("PATCH", stateful, route, id_value, "model", 200, "",
                                          <<WithId(b.instances[1], parse_path_params(route)[1],
                                                   id_value)>>)
    /\ UNCHANGED <<registry, call, overrides, rngs, resolved, built, others, specs, errors,
                   RateVars>>

\* the store and the returned model after the upsert of a PUT: [store, resp]
Upsert(st_, route, id_value, response_model, uuid) ==
    LET id_field == parse_path_params(route)[1]
        resp == IF "id" \in DOMAIN response_model.fields
                   \/ id_field \in DOMAIN response_model.fields
                THEN WithId(response_model, id_field, id_value)
                ELSE response_model
    IN  IF ~IsNone(get_by_id(st_, collection_path(route), id_value, id_field))
        THEN [store |-> update(st_, collection_path(route), id_value, resp, id_field).store,
              resp |-> resp]
        ELSE [store |-> add(st_, collection_path(route), resp, uuid),
              resp |-> Identified(resp, uuid)]

\* a PUT request
Put(stateful, route, id_value, input_data) ==
    /\ \E b \in {HandlerResponse(Plain(StoredItem), input_data, 5, NoSeed, "", FreshSt,
                                 registry)} :
           /\ grand' = b.st.grand
           /\ frand' = b.st.frand
           /\ IF b.exc # ""
              THEN /\ response' = Answer("PUT", stateful, route, id_value, "model", 500, b.exc,
                                         <<>>)
                   /\ UNCHANGED store
              ELSE IF ~ById(stateful, route)
              THEN /\ response' = Answer("PUT", stateful, route, id_value, "model", 200, "",
                                         b.instances)
                   /\ UNCHANGED store
              ELSE \E uuid \in Uuids \ StoredIds(store) :
                       \E u \in {Upsert(store, route, id_value, b.instances[1], uuid)} :
                           /\ store' = u.store
                           /\ response' = Answer("PUT", stateful, route, id_value, "model",
                                                 200, "", <<u.resp>>)
    /\ UNCHANGED <<registry, call, overrides, rngs, resolved, built, others, specs, errors,
                   RateVars>>

\* a DELETE request; output is "none" (output=None) or "model"
Delete(stateful, route, id_value, output, input_data) ==
    /\ IF ById(stateful, route)
       THEN /\ \E r \in {remove(store, collection_path(route), id_value,
                                parse_path_params(route)[1])} :
                   /\ store' = r.store
                   /\ response' = IF r.result
                                  THEN Answer("DELETE", stateful, route, id_value, output, 204,
                                              "", <<>>)
                                  ELSE Answer("DELETE", stateful, route, id_value, output, 404,
                                              "HTTPException", <<>>)
            /\ UNCHANGED <<grand, frand>>
       ELSE IF output = "none"
       THEN /\ response' = Answer("DELETE", stateful, route, id_value, output, 204, "", <<>>)
            /\ UNCHANGED <<store, grand, frand>>
       ELSE \E b \in {HandlerResponse(Plain(StoredItem), input_data, 1, NoSeed, "", FreshSt,
                                      registry)} :
                /\ response' = Answer("DELETE", stateful, route, id_value, output,
                                      IF b.exc # "" THEN 500 ELSE 200, b.exc, b.instances)
                /\ grand' = b.st.grand
                /\ frand' = b.st.frand
                /\ UNCHANGED store
    /\ UNCHANGED <<registry, call, overrides, rngs, resolved, built, others, specs, errors,
                   RateVars>>

\* the routes of the examples and tests, and a second parameter name
Routes ==
    {Route("/users/{id}", "/users", <<"id">>),
     Route("/users/{user_id}", "/users", <<"user_id">>),
     Route("/items/{id}", "/items", <<"id">>),
     Route("/items", "/items", <<>>)}
Account == Model("Account", <<Fld("user_id", Str, <<>>), Fld("name", Str, <<>>)>>)
CrudInstances ==
    {Instance(StoredItem, [x \in {"id", "name"} |-> IF x = "id" THEN StrV(id) ELSE StrV("a")]) :
        id \in {"u1", "u2"}}
    \cup {Instance(Account, [x \in {"user_id", "name"} |->
                                IF x = "user_id" THEN StrV("u1") ELSE StrV("b")])}
IdValues == {StrV("u1"), StrV("u2")}

NextCrud ==
    \/ \E path \in StorePaths, instance \in CrudInstances : StoreAdd(path, instance)
    \/ \E path \in StorePaths \cup {AllPaths} : Clear(path)
    \/ \E path \in StorePaths, input_data \in Bodies, seed \in Seeds :
          Post(path, input_data, seed)
    \/ \E stateful \in BOOLEAN, route \in Routes, id_value \in IdValues, input_data \in Bodies :
          \/ GetOne(stateful, route, id_value, input_data)
          \/ Patch(stateful, route, id_value, input_data)
          \/ Put(stateful, route, id_value, input_data)
          \/ \E output \in {"none", "model"} :
                 Delete(stateful, route, id_value, output, input_data)

SpecCrud == Init /\ [][NextCrud]_vars

\* the step is a stateful by-id request of the given method
ByIdStep(op) ==
    /\ response'.op = op
    /\ response'.stateful
    /\ response'.id_field # ""

\* C21: a stateful PUT on /collection/{param} is an upsert: it answers with the
\* item carrying the path value as its id, that item is stored, the collection
\* grows by one when no item matched and keeps its length when one did
C21_PutUpserts ==
    [][ByIdStep("PUT") =>
          LET before == ItemsOf(store, response'.path)
              after == ItemsOf(store', response'.path)
              k == IdIndex(before, response'.id_value, response'.id_field)
          IN  /\ response'.status = 200
              /\ Len(response'.body) = 1
              /\ IdIndex(after, response'.id_value, response'.id_field) # 0
              /\ Len(after) = IF k = 0 THEN Len(before) + 1 ELSE Len(before)
              /\ k # 0 => /\ after[k] = response'.body[1]
                          /\ \A j \in 1..Len(before) : j # k => after[j] = before[j]]_vars

\* the id of the request matched no item of its collection before the step
Missing == IdIndex(ItemsOf(store, response'.path), response'.id_value, response'.id_field) = 0

\* C22: a stateful by-id GET, PATCH or DELETE whose id matches no stored item
\* answers 404 and leaves the whole store as it was; no response is generated
\* (no random number drawn) before the 404
C22_MissingIdNotFound ==
    [][\A op \in {"GET", "PATCH", "DELETE"} :
           ByIdStep(op) /\ Missing =>
               /\ response'.status = 404
               /\ response'.exc = "HTTPException"
               /\ response'.body = <<>>
               /\ store' = store
               /\ grand' = grand
               /\ frand' = frand]_vars

\* a PATCH for an absent id was answered 404 while its collection held other items
C22_Witness ==
    /\ response.op = "PATCH"
    /\ response.stateful
    /\ response.status = 404
    /\ ItemsOf(store, response.path) # <<>>
    /\ IdIndex(ItemsOf(store, response.path), response.id_value, response.id_field) = 0

\* C23: a stateful DELETE for an id that is present removes exactly one item,
\* the first whose id field equals the path value; the other items keep their
\* order, the other collections are unchanged and the answer is 204 without a
\* body. clear(path) empties that path only, clear(None) every path
C23_DeleteRemovesFirstMatch ==
    [][
        /\ ByIdStep("DELETE") /\ ~Missing =>
              LET before == ItemsOf(store, response'.path)
                  k == IdIndex(before, response'.id_value, response'.id_field)
              IN  /\ response'.status = 204
                  /\ response'.body = <<>>
                  /\ DOMAIN store' = DOMAIN store
                  /\ store'[response'.path] = RemoveAt(before, k)
                  /\ \A p \in DOMAIN store : p # response'.path => store'[p] = store[p]
        /\ response'.op = "clear" =>
              /\ response'.path = AllPaths => store' = NoItems
              /\ response'.path # AllPaths =>
                    /\ ItemsOf(store', response'.path) = <<>>
                    /\ \A p \in StorePaths :
                           p # response'.path => ItemsOf(store', p) = ItemsOf(store, p)]_vars

\* a DELETE answered 204 and an item with the same id is still stored: the
\* collection held the id twice and only the first was removed
C23_Witness ==
    /\ response.op = "DELETE"
    /\ response.stateful
    /\ response.status = 204
    /\ IdIndex(ItemsOf(store, response.path), response.id_value, response.id_field) # 0

\* C24: a DELETE endpoint registered with output=None answers 204 without a
\* body, one registered with an output model answers 200 with a generated body,
\* with and without a store
C24_DeleteStatusByOutput ==
    [][response'.op = "DELETE" =>
          IF response'.output = "none"
          THEN response'.status = 204 /\ response'.body = <<>>
          ELSE response'.status = 200 /\ Len(response'.body) = 1]_vars

resolve_seed(api_seed, seed_from, input_data) ==
    IF api_seed # NoSeed THEN [exc |-> "", seed |-> api_seed]
    ELSE IF seed_from # "" /\ ~IsNone(DictGet(input_data, seed_from))
    THEN Only({IF r.exc = "" THEN [exc |-> "", seed |-> r.n]
               ELSE IF r.exc \in {"TypeError", "ValueError"} THEN [exc |-> "", seed |-> NoSeed]
               ELSE [exc |-> r.exc, seed |-> NoSeed]
               : r \in {int(input_data[seed_from])}})
    ELSE [exc |-> "", seed |-> NoSeed]

\* RateLimiter.check_and_record run by one thread at a time: [timestamps, result]
check_and_record(ts, key, limit, now) ==
    Only({IF Len(recent) >= limit
          THEN [timestamps |-> [ts EXCEPT ![key] = recent], result |-> FALSE]
          ELSE [timestamps |-> [ts EXCEPT ![key] = Append(recent, now)], result |-> TRUE]
          : recent \in {Recent(ts[key], now)}})

\* _maybe_raise_error drawing from the module-level generator whatever the seed
maybe_raise_error_unseeded(error_rate, error_codes, seed, g) ==
    LET g1 == RngStep(g)
        g2 == RngStep(g1)
    IN  IF error_rate <= 0 THEN [code |-> 0, grand |-> g]
        ELSE IF g1 < error_rate
        THEN [code |-> error_codes[(g2 * Len(error_codes)) \div RngMod + 1], grand |-> g2]
        ELSE [code |-> 0, grand |-> g1]

\* SemblanceAPI._maybe_raise_error: [code, grand]; code 0 is no error, grand the
\* module-level generator afterwards; error_rate is counted in 1/RngMod
maybe_raise_error(error_rate, error_codes, seed, g) ==
    LET x0 == IF seed # NoSeed THEN RngSeed(seed) ELSE g
        x1 == RngStep(x0)
        x2 == RngStep(x1)
    IN  IF error_rate <= 0 THEN [code |-> 0, grand |-> g]
        ELSE IF x1 < error_rate
        THEN [code |-> error_codes[(x2 * Len(error_codes)) \div RngMod + 1],
              grand |-> IF seed # NoSeed THEN g ELSE x2]
        ELSE [code |-> 0, grand |-> IF seed # NoSeed THEN g ELSE x1]

\* SemblanceAPI._await_latency: [slept, grand]; the jitter is
\* random.uniform(-jitter_ms, jitter_ms) of the module-level generator
await_latency(latency_ms, jitter_ms, g) ==
    IF latency_ms <= 0 /\ jitter_ms <= 0 THEN [slept |-> 0, grand |-> g]
    ELSE [slept |-> Max(0, latency_ms - jitter_ms + (2 * jitter_ms * RngStep(g)) \div RngMod),
          grand |-> RngStep(g)]

\* the endpoints: @api.get("/users", ...), @api.post("/users", ...), @api.get("/items", ...)
Endpoint(key) ==
    IF key = <<"/users", "GET">>
    THEN [key |-> key, rate_limit |-> RateLimit(key), seed_from |-> "seed", error_rate |-> 0,
          error_codes |-> <<404, 500>>, latency_ms |-> 0, jitter_ms |-> 0]
    ELSE IF key = <<"/users", "POST">>
    THEN [key |-> key, rate_limit |-> RateLimit(key), seed_from |-> "", error_rate |-> 4,
          error_codes |-> <<500, 503>>, latency_ms |-> 1, jitter_ms |-> 1]
    ELSE [key |-> key, rate_limit |-> RateLimit(key), seed_from |-> "seed", error_rate |-> 4,
          error_codes |-> <<404, 500>>, latency_ms |-> 0, jitter_ms |-> 2]

HandlerInputs ==
    {[x \in {"a", "seed"} |-> IF x = "a" THEN StrV("alice") ELSE v] :
        v \in {NoneV, IntV(0), StrV("1"), StrV("abc"), FloatV(3), Inf}}

InFlight == call.op = "request" /\ call.pc # "done"

\* what a handler answers
Reply(status, exc, detail, body) ==
    [op |-> call.endpoint.key[2], path |-> call.endpoint.key[1], status |-> status,
     exc |-> exc, detail |-> detail, alias |-> FALSE, given |-> <<>>, body |-> body]

\* a request arrives at an endpoint of an API made with SemblanceAPI(seed=api_seed,
\* stateful=True)
Receive(key, api_seed, input_data) ==
    /\ ~InFlight
    /\ calls < MaxRequests
    /\ call.op = "request" => api_seed = call.api_seed
    /\ calls' = calls + 1
    /\ call' = [op |-> "request", pc |-> "rate_limit", endpoint |-> Endpoint(key),
                api_seed |-> api_seed, input_data |-> input_data, seed |-> NoSeed,
                trace |-> <<>>, slept |-> 0,
                seen |-> IF call.op = "request" THEN call.seen ELSE {}]
    /\ response' = NoResponse
    /\ UNCHANGED <<registry, grand, frand, overrides, rngs, resolved, built, others, specs,
                   errors, timestamps, lock, threads, clock, admitted, store>>

\* self._check_rate_limit(spec)
CheckRateLimit ==
    /\ InFlight /\ call.pc = "rate_limit"
    /\ IF call.endpoint.rate_limit <= 0
       THEN /\ call' = [call EXCEPT !.pc = "seed", !.trace = Append(@, "rate_limit")]
            /\ UNCHANGED <<timestamps, response>>
       ELSE \E r \in {check_and_record(timestamps, call.endpoint.key,
                                       call.endpoint.rate_limit, clock)} :
                /\ timestamps' = r.timestamps
                /\ IF r.result
                   THEN /\ call' = [call EXCEPT !.pc = "seed",
                                                !.trace = Append(@, "rate_limit")]
                        /\ UNCHANGED response
                   ELSE /\ call' = [call EXCEPT !.pc = "done",
                                                !.trace = Append(@, "rate_limit")]
                        /\ response' = Reply(429, "HTTPException",
                                             "Rate limit exceeded (simulated)", <<>>)
    /\ UNCHANGED <<registry, grand, frand, overrides, rngs, resolved, built, others, specs,
                   errors, lock, threads, clock, admitted, calls, store>>

\* merged = self._merge_path_params(...) (no path parameters);
\* seed = self._resolve_seed(seed_from, merged)
ResolveSeed ==
    /\ InFlight /\ call.pc = "seed"
    /\ \E r \in {resolve_seed(call.api_seed, call.endpoint.seed_from, call.input_data)} :
           IF r.exc # ""
           THEN /\ call' = [call EXCEPT !.pc = "done", !.trace = Append(@, "seed")]
                /\ response' = Reply(500, r.exc, "", <<>>)
           ELSE /\ call' = [call EXCEPT !.pc = "error", !.seed = r.seed,
                                        !.trace = Append(@, "seed")]
                /\ UNCHANGED response
    /\ UNCHANGED <<registry, grand, frand, overrides, rngs, resolved, built, others, specs,
                   errors, RateVars, store>>

\* the outcome of a simulated-error check made with a seed, for the record
Outcome(code) ==
    IF call.endpoint.error_rate <= 0 \/ call.seed = NoSeed THEN {}
    ELSE {<<call.endpoint.key, call.seed, code>>}

\* self._maybe_raise_error(error_rate, error_codes, seed)
MaybeRaiseError ==
    /\ InFlight /\ call.pc = "error"
    /\ \E r \in {maybe_raise_error(call.endpoint.error_rate, call.endpoint.error_codes,
                                   call.seed, grand)} :
           /\ grand' = r.grand
           /\ IF r.code # 0
              THEN /\ call' = [call EXCEPT
                                  !.pc = "done", !.trace = Append(@, "error"),
                                  !.seen = @ \cup Outcome(r.code)]
                   /\ response' = Reply(r.code, "HTTPException", "Simulated error", <<>>)
              ELSE /\ call' = [call EXCEPT
                                  !.pc = "latency", !.trace = Append(@, "error"),
                                  !.seen = @ \cup Outcome(0)]
                   /\ UNCHANGED response
    /\ UNCHANGED <<registry, frand, overrides, rngs, resolved, built, others, specs, errors,
                   RateVars, store>>

\* await self._await_latency(latency_ms, jitter_ms); the time slept is recorded,
\* the clock moves with Tick
AwaitLatency ==
    /\ InFlight /\ call.pc = "latency"
    /\ \E r \in {await_latency(call.endpoint.latency_ms, call.endpoint.jitter_ms, grand)} :
           /\ grand' = r.grand
           /\ call' = [call EXCEPT !.pc = "respond", !.slept = r.slept,
                                   !.trace = Append(@, "latency")]
    /\ UNCHANGED <<registry, frand, overrides, rngs, resolved, built, others, specs, errors,
                   RateVars, store, response>>

\* the rest of the handler: a GET of list[UserWithId] returns store.get_all(path),
\* a POST calls build_response and stores the instance
Respond ==
    /\ InFlight /\ call.pc = "respond"
    /\ call' = [call EXCEPT !.pc = "done", !.trace = Append(@, "respond")]
    /\ IF call.endpoint.key[2] = "GET"
       THEN /\ response' = Reply(200, "", "", get_all(store, call.endpoint.key[1]).items)
            /\ UNCHANGED <<store, grand, frand>>
       ELSE \E b \in {HandlerResponse(Plain(StoredItem), call.input_data, 5, call.seed, "",
                                      FreshSt, registry)} :
                /\ grand' = b.st.grand
                /\ frand' = b.st.frand
                /\ IF b.exc # ""
                   THEN /\ response' = Reply(500, b.exc, "", <<>>)
                        /\ UNCHANGED store
                   ELSE \E uuid \in Uuids \ StoredIds(store) :
                            /\ store' = add(store, call.endpoint.key[1], b.instances[1], uuid)
                            /\ response' = Reply(200, "", "",
                                                 <<Identified(b.instances[1], uuid)>>)
    /\ UNCHANGED <<registry, overrides, rngs, resolved, built, others, specs, errors,
                   RateVars>>

NextHandler ==
    \/ \E key \in RateKeys, api_seed \in Seeds, input_data \in HandlerInputs :
          Receive(key, api_seed, input_data)
    \/ CheckRateLimit
    \/ ResolveSeed
    \/ MaybeRaiseError
    \/ AwaitLatency
    \/ Respond
    \/ ~InFlight /\ Tick
    \/ \E path \in StorePaths :
          call.op = "none" /\ StoreAdd(path, Instance(StoredItem, [x \in {"id", "name"} |-> StrV("u1")]))

SpecHandler == Init /\ [][NextHandler]_vars

\* the request has gone through the named step
Passed(step) == call.op = "request" /\ \E k \in 1..Len(call.trace) : call.trace[k] = step

\* the seed the request is to use: the API's when it has one, else the integer
\* the seed_from field converts to, else none
SeedFor(api_seed, seed_from, input_data) ==
    IF api_seed # NoSeed THEN api_seed
    ELSE IF /\ seed_from # ""
            /\ seed_from \in DOMAIN input_data
            /\ ~IsNone(input_data[seed_from])
            /\ int(input_data[seed_from]).exc = ""
    THEN int(input_data[seed_from]).n
    ELSE NoSeed

\* C25: the seed of a request is the API-level seed whenever there is one,
\* whatever seed_from is; otherwise int(input[seed_from]) when seed_from is set
\* and that value is present and int-convertible; otherwise None. Seed
\* resolution never raises: the request goes on to the next step
C25_SeedResolution ==
    Passed("seed") =>
        /\ ~(call.pc = "done" /\ call.trace[Len(call.trace)] = "seed")
        /\ call.seed = SeedFor(call.api_seed, call.endpoint.seed_from, call.input_data)

HandlerOrder == <<"rate_limit", "seed", "error", "latency", "respond">>

\* the step ends the request in flight
Finishes == call.op = "request" /\ call.pc # "done" /\ call'.pc = "done"

====
